---- MODULE Spec2Model ----
(***************************************************************************)
(* A model of the CHIP-8 core of rusty-chip8 (src/src/lib.rs): the         *)
(* instruction decoder Instruction::new, the machine state Chip8, and the  *)
(* public operations new, store_in_ram, tick, handle_key_pressed and       *)
(* handle_key_released.                                                    *)
(***************************************************************************)
EXTENDS Integers, Sequences, FiniteSets, TLC

(***************************************************************************)
(* Program constants (lib.rs:13-23).                                       *)
(***************************************************************************)
TERMINAL_WIDTH == 64
TERMINAL_HEIGHT == 32
FPS == 60
RAM_SIZE == 4096
PROGRAM_START == 512
FONT_ADDR == 80
FONT_SIZE == 5

FONTS ==
  << 240, 144, 144, 144, 240,
     32, 96, 32, 32, 112,
     240, 16, 240, 128, 240,
     240, 16, 240, 16, 240,
     144, 144, 240, 16, 16,
     240, 128, 240, 16, 240,
     240, 128, 240, 144, 240,
     240, 16, 32, 64, 64,
     240, 144, 240, 144, 240,
     240, 144, 240, 16, 240,
     240, 144, 240, 144, 144,
     224, 144, 224, 144, 224,
     240, 128, 128, 128, 240,
     224, 144, 144, 144, 224,
     240, 128, 240, 128, 240,
     240, 128, 240, 128, 128 >>

Byte == 0..255

(***************************************************************************)
(* Option<T>: None is the empty sequence, Some(v) the one-element one.     *)
(***************************************************************************)
None == << >>
Some(v) == << v >>

(***************************************************************************)
(* Bit operations on u8.                                                   *)
(***************************************************************************)
RECURSIVE BitAnd(_, _)
BitAnd(a, b) ==
  IF a = 0 \/ b = 0 THEN 0
  ELSE 2 * BitAnd(a \div 2, b \div 2) + (IF a % 2 = 1 /\ b % 2 = 1 THEN 1 ELSE 0)

RECURSIVE BitXor(_, _)
BitXor(a, b) ==
  IF a = 0 THEN b
  ELSE IF b = 0 THEN a
  ELSE 2 * BitXor(a \div 2, b \div 2) + (IF a % 2 = b % 2 THEN 0 ELSE 1)

RECURSIVE Pow2(_)
Pow2(k) == IF k = 0 THEN 1 ELSE 2 * Pow2(k - 1)

(***************************************************************************)
(* u16::from_ne_bytes([lo, hi]) (lib.rs:104): the bytes are read in the    *)
(* byte order of the build's target, so the first byte is the low byte on  *)
(* a little-endian target and the high byte on a big-endian one.           *)
(***************************************************************************)
FromNeBytes(le, first, second) ==
  IF le THEN second * 256 + first ELSE first * 256 + second

(***************************************************************************)
(* Instruction::new (lib.rs:98-146).  The arms are tried in the order of   *)
(* the match; the last arm is the decode failure.                          *)
(***************************************************************************)
DecodeErr == [t |-> "Err"]

InstructionNew(le, b1, b2) ==
  LET i == b1 \div 16
      x == b1 % 16
      y == b2 \div 16
      n == b2 % 16
      nn == b2
      nnn == FromNeBytes(le, nn, x)
  IN  CASE i = 0 /\ x = 0 /\ y = 14 /\ n = 0 -> [t |-> "Cls00E0"]
        [] i = 10 -> [t |-> "SetIndexRegisterANNN", nnn |-> nnn]
        [] i = 1 -> [t |-> "Jump1NNN", nnn |-> nnn]
        [] i = 6 -> [t |-> "SetVRegister6XNN", x |-> x, nn |-> nn]
        [] i = 13 -> [t |-> "Dxyn", x |-> x, y |-> y, n |-> n]
        [] i = 2 -> [t |-> "SubroutineCall2NNN", nnn |-> nnn]
        [] i = 0 /\ x = 0 /\ y = 14 /\ n = 14 -> [t |-> "SubroutineReturn00EE"]
        [] i = 3 -> [t |-> "SkipEqual3XNN", x |-> x, nn |-> nn]
        [] i = 4 -> [t |-> "SkipNotEqual4XNN", x |-> x, nn |-> nn]
        [] i = 5 /\ n = 0 -> [t |-> "SkipIfEqual5XY0", x |-> x, y |-> y]
        [] i = 9 /\ n = 0 -> [t |-> "SkipIfNotEqual9XY0", x |-> x, y |-> y]
        [] i = 7 -> [t |-> "Add7XNN", x |-> x, nn |-> nn]
        [] i = 8 /\ n = 3 -> [t |-> "Xor8XY3", x |-> x, y |-> y]
        [] i = 15 /\ y = 3 /\ n = 3 -> [t |-> "BinaryCodedDecimalConversionFX33", x |-> x]
        [] i = 15 /\ y = 2 /\ n = 9 -> [t |-> "FontCharacterFX29", x |-> x]
        [] i = 15 /\ y = 1 /\ n = 5 -> [t |-> "SetDelayTimerFX15", x |-> x]
        [] i = 15 /\ y = 0 /\ n = 7 -> [t |-> "ReadDelayTimerFX07", x |-> x]
        [] i = 15 /\ y = 0 /\ n = 10 -> [t |-> "GetKeyFX0A", x |-> x]
        [] i = 15 /\ y = 1 /\ n = 8 -> [t |-> "SetSoundTimerFX18", x |-> x]
        [] i = 15 /\ y = 1 /\ n = 14 -> [t |-> "AddToIndexFX1E", x |-> x]
        [] i = 15 /\ y = 5 /\ n = 5 -> [t |-> "StoreRegistersToMemoryFX55", x |-> x]
        [] i = 15 /\ y = 6 /\ n = 5 -> [t |-> "LoadRegistersFromMemoryFX65", x |-> x]
        [] i = 12 -> [t |-> "RandomCXNN", x |-> x, nn |-> nn]
        [] i = 14 /\ y = 9 /\ n = 14 -> [t |-> "SkipIfKeyPressedEX9E", x |-> x]
        [] i = 14 /\ y = 10 /\ n = 1 -> [t |-> "SkipIfKeyNotPressedEXA1", x |-> x]
        [] i = 8 /\ n = 2 -> [t |-> "BinaryAnd8XY2", x |-> x, y |-> y]
        [] i = 8 /\ n = 4 -> [t |-> "RegisterAdd8XY4", x |-> x, y |-> y]
        [] i = 8 /\ n = 0 -> [t |-> "RegisterSet8XY0", x |-> x, y |-> y]
        [] i = 8 /\ n = 5 -> [t |-> "RegisterSub8XY5", x |-> x, y |-> y]
        [] i = 8 /\ n = 6 -> [t |-> "ShiftRight8XY6", x |-> x, y |-> y]
        [] i = 8 /\ n = 14 -> [t |-> "ShiftLeft8XYE", x |-> x, y |-> y]
        [] i = 8 /\ n = 7 -> [t |-> "RegisterSubRev8XY7", x |-> x, y |-> y]
        [] OTHER -> DecodeErr

(***************************************************************************)
(* Instruction::requires_pc_inc (lib.rs:148-153).                          *)
(***************************************************************************)
\* Faulty variant: Fx0A gets no PC advance either, so it is fetched again.
RequiresPcIncNotForGetKey(inst) ==
  IF inst.t \in {"SubroutineCall2NNN", "Jump1NNN", "GetKeyFX0A"} THEN 0 ELSE 2

\* Faulty variant: 00EE gets no PC advance, like the jump and the call.
RequiresPcIncNotForReturn(inst) ==
  IF inst.t \in {"SubroutineCall2NNN", "Jump1NNN", "SubroutineReturn00EE"}
  THEN 0 ELSE 2

RequiresPcInc(inst) ==
  IF inst.t \in {"SubroutineCall2NNN", "Jump1NNN"} THEN 0 ELSE 2

(***************************************************************************)
(* State: the fields of struct Chip8 (lib.rs:45-58), the byte order of the *)
(* build's target, and what an observer of the machine sees: whether a     *)
(* panic has ended the run, the last operation called with its argument    *)
(* and result, the Graphics calls, Audio calls and instruction cycles of   *)
(* the last operation, the number of store_in_ram calls so far and how     *)
(* many of them succeeded, the last instruction cycle executed so far and  *)
(* the last Audio call made so far.                                        *)
(***************************************************************************)
VARIABLES clock, pixels, ram, pc, i, stack, registers, delay_timer,
          sound_timer, beeping, key_pressed, waiting_for_input,
          little_endian, fault, op, arg, ret, gfx, audio, trace, loads,
          stored, last_cycle, last_audio

vars == << clock, pixels, ram, pc, i, stack, registers, delay_timer,
           sound_timer, beeping, key_pressed, waiting_for_input,
           little_endian, fault, op, arg, ret, gfx, audio, trace, loads,
           stored, last_cycle, last_audio >>

(***************************************************************************)
(* The machine as one value, for the operators below.                      *)
(***************************************************************************)
Machine ==
  [ clock |-> clock, pixels |-> pixels, ram |-> ram, pc |-> pc, i |-> i,
    stack |-> stack, registers |-> registers, delay_timer |-> delay_timer,
    sound_timer |-> sound_timer, beeping |-> beeping,
    key_pressed |-> key_pressed, waiting_for_input |-> waiting_for_input,
    fault |-> fault, gfx |-> << >>, audio |-> << >>, trace |-> << >> ]

\* What last_cycle keeps of a logged cycle: all but the machine it found.
CycleSummary(e) ==
  [addr |-> e.addr, inst |-> e.inst,
   delay_timer |-> e.delay_timer, sound_timer |-> e.sound_timer]

SetMachine(m) ==
  /\ clock' = m.clock
  /\ pixels' = m.pixels
  /\ ram' = m.ram
  /\ pc' = m.pc
  /\ i' = m.i
  /\ stack' = m.stack
  /\ registers' = m.registers
  /\ delay_timer' = m.delay_timer
  /\ sound_timer' = m.sound_timer
  /\ beeping' = m.beeping
  /\ key_pressed' = m.key_pressed
  /\ waiting_for_input' = m.waiting_for_input
  /\ fault' = m.fault
  /\ gfx' = m.gfx
  /\ audio' = m.audio
  /\ trace' = m.trace
  /\ last_cycle' = IF m.trace # << >> THEN Some(CycleSummary(m.trace[Len(m.trace)])) ELSE last_cycle
  /\ last_audio' = IF m.audio # << >> THEN m.audio[Len(m.audio)].call ELSE last_audio

(***************************************************************************)
(* Chip8::new (lib.rs:163-173); the other fields take Default::default().  *)
(***************************************************************************)
BlankPixels ==
  [y \in 0..(TERMINAL_HEIGHT - 1) |-> [x \in 0..(TERMINAL_WIDTH - 1) |-> FALSE]]

\* ram: Vec<u8> is the sequence of its RAM_SIZE bytes: the byte at address a
\* is element a + 1.
Zeros(n) == [k \in 1..n |-> 0]

\* Faulty variant: the font table is copied to 0x500 instead of 0x50.
NewRamFontsMisplaced ==
  Zeros(16 * FONT_ADDR) \o FONTS \o Zeros(RAM_SIZE - 16 * FONT_ADDR - Len(FONTS))

NewRam ==
  Zeros(FONT_ADDR) \o FONTS \o Zeros(RAM_SIZE - FONT_ADDR - Len(FONTS))

RamAt(r, a) == r[a + 1]

Chip8New(c) ==
  [ clock |-> c, pixels |-> BlankPixels, ram |-> NewRam, pc |-> PROGRAM_START,
    i |-> 0, stack |-> << >>, registers |-> [r \in 0..15 |-> 0],
    delay_timer |-> 0, sound_timer |-> 0, beeping |-> FALSE,
    key_pressed |-> None, waiting_for_input |-> None,
    fault |-> "none", gfx |-> << >>, audio |-> << >>, trace |-> << >> ]

(***************************************************************************)
(* The Graphics and Audio calls the machine makes, in order.               *)
(***************************************************************************)
ClearPixel(x, y) == [call |-> "clear_pixel", x |-> x, y |-> y]
DrawPixel(x, y) == [call |-> "draw_pixel", x |-> x, y |-> y]

(***************************************************************************)
(* A panic, or an Err that tick turns into one, ends the run: the machine  *)
(* keeps the state it had when the panic was raised.                       *)
(***************************************************************************)
Panic(m, why) == [m EXCEPT !.fault = why]

(***************************************************************************)
(* Cls00E0 (lib.rs:237-246): one clear_pixel per lit pixel, row by row,    *)
(* then a fresh blank framebuffer.                                         *)
(***************************************************************************)
AllCells ==
  [k \in 1..(TERMINAL_WIDTH * TERMINAL_HEIGHT) |->
     << (k - 1) % TERMINAL_WIDTH, (k - 1) \div TERMINAL_WIDTH >>]

LitCells(px) == SelectSeq(AllCells, LAMBDA c : px[c[2]][c[1]])

\* Faulty variant: clear_pixel is called for every cell, lit or not.
ExecClsEveryCell(m) ==
  [m EXCEPT !.gfx = @ \o [k \in 1..Len(AllCells) |->
                            ClearPixel(AllCells[k][1], AllCells[k][2])],
            !.pixels = BlankPixels]

ExecCls(m) ==
  LET lit == LitCells(m.pixels)
  IN  [m EXCEPT !.gfx = @ \o [k \in 1..Len(lit) |-> ClearPixel(lit[k][1], lit[k][2])],
                !.pixels = BlankPixels]

(***************************************************************************)
(* check_coordinates and is_pixel_on (lib.rs:401-404, 445-453).            *)
(***************************************************************************)
CheckCoordinates(x, y) == x < TERMINAL_WIDTH /\ y < TERMINAL_HEIGHT

(***************************************************************************)
(* Dxyn (lib.rs:249-283).  DrawBits is the inner loop over the bits of one *)
(* sprite row, high bit first; DrawRows the outer loop over the rows.      *)
(* Both stop at the screen edge.  d holds the machine and the collision    *)
(* flag; a failed is_pixel_on leaves the instruction with Err.             *)
(***************************************************************************)
\* Faulty variant: a sprite row that reaches the right edge goes on at
\* column 0 instead of ending there.
RECURSIVE DrawBitsWrapping(_, _, _, _, _)
DrawBitsWrapping(d, row, x, y, bit) ==
  IF bit < 0 \/ d.err THEN d
  ELSE
    LET pixel == (row \div Pow2(bit)) % 2
        d1 == IF pixel # 1 THEN d
              ELSE IF ~CheckCoordinates(x, y) THEN [d EXCEPT !.err = TRUE]
              ELSE LET is_pixel_on == d.m.pixels[y][x]
                   IN  [d EXCEPT
                          !.m.pixels[y][x] = ~is_pixel_on,
                          !.m.gfx = Append(@, IF is_pixel_on THEN ClearPixel(x, y)
                                                             ELSE DrawPixel(x, y)),
                          !.collision = @ \/ is_pixel_on]
    IN  IF d1.err THEN d1
        ELSE DrawBitsWrapping(d1, row, (x + 1) % TERMINAL_WIDTH, y, bit - 1)

\* Faulty variant: a set bit turns its cell on instead of toggling it.
RECURSIVE DrawBitsOverwriting(_, _, _, _, _)
DrawBitsOverwriting(d, row, x, y, bit) ==
  IF bit < 0 \/ d.err THEN d
  ELSE
    LET pixel == (row \div Pow2(bit)) % 2
        d1 == IF pixel # 1 THEN d
              ELSE IF ~CheckCoordinates(x, y) THEN [d EXCEPT !.err = TRUE]
              ELSE LET is_pixel_on == d.m.pixels[y][x]
                   IN  [d EXCEPT
                          !.m.pixels[y][x] = TRUE,
                          !.m.gfx = Append(@, DrawPixel(x, y)),
                          !.collision = @ \/ is_pixel_on]
    IN  IF d1.err \/ x + 1 = TERMINAL_WIDTH THEN d1
        ELSE DrawBitsOverwriting(d1, row, x + 1, y, bit - 1)

RECURSIVE DrawBits(_, _, _, _, _)
DrawBits(d, row, x, y, bit) ==
  IF bit < 0 \/ d.err THEN d
  ELSE
    LET pixel == (row \div Pow2(bit)) % 2
        d1 == IF pixel # 1 THEN d
              ELSE IF ~CheckCoordinates(x, y) THEN [d EXCEPT !.err = TRUE]
              ELSE LET is_pixel_on == d.m.pixels[y][x]
                   IN  [d EXCEPT
                          !.m.pixels[y][x] = ~is_pixel_on,
                          !.m.gfx = Append(@, IF is_pixel_on THEN ClearPixel(x, y)
                                                             ELSE DrawPixel(x, y)),
                          !.collision = @ \/ is_pixel_on]
    IN  IF d1.err \/ x + 1 = TERMINAL_WIDTH THEN d1
        ELSE DrawBits(d1, row, x + 1, y, bit - 1)

RECURSIVE DrawRows(_, _, _, _, _)
DrawRows(d, sprites, k, x_org, y) ==
  IF k > Len(sprites) \/ d.err THEN d
  ELSE
    LET d1 == DrawBits(d, sprites[k], x_org, y, 7)
    IN  IF d1.err \/ y + 1 = TERMINAL_HEIGHT THEN d1
        ELSE DrawRows(d1, sprites, k + 1, x_org, y + 1)

\* Faulty variant: VF is not reset before the sprite is drawn.
ExecDxynKeepsFlag(m, x, y, n) ==
  LET x_org == m.registers[x] % TERMINAL_WIDTH
      y_org == m.registers[y] % TERMINAL_HEIGHT
  IN  IF m.i + n > RAM_SIZE THEN Panic(m, "bounds")
      ELSE
        LET sprites == SubSeq(m.ram, m.i + 1, m.i + n)
            d == DrawRows([m |-> m, collision |-> FALSE, err |-> FALSE],
                          sprites, 1, x_org, y_org)
        IN  IF d.err THEN Panic(d.m, "execute")
            ELSE IF d.collision THEN [d.m EXCEPT !.registers[15] = 1]
            ELSE d.m

ExecDxyn(m, x, y, n) ==
  LET x_org == m.registers[x] % TERMINAL_WIDTH
      y_org == m.registers[y] % TERMINAL_HEIGHT
      m0 == [m EXCEPT !.registers[15] = 0]
  IN  IF m.i + n > RAM_SIZE THEN Panic(m0, "bounds")
      ELSE
        LET sprites == SubSeq(m.ram, m.i + 1, m.i + n)
            d == DrawRows([m |-> m0, collision |-> FALSE, err |-> FALSE],
                          sprites, 1, x_org, y_org)
        IN  IF d.err THEN Panic(d.m, "execute")
            ELSE IF d.collision THEN [d.m EXCEPT !.registers[15] = 1]
            ELSE d.m

(***************************************************************************)
(* Fx33 (lib.rs:309-314): three indexed writes, each of which panics when  *)
(* its index is outside the RAM, after the writes before it have landed.   *)
(***************************************************************************)
\* Faulty variant: the three addresses wrap around the end of the RAM.
ExecBcdWrapping(m, x) ==
  LET val == m.registers[x]
  IN  [m EXCEPT !.ram[(m.i % RAM_SIZE) + 1] = val \div 100,
                !.ram[((m.i + 1) % RAM_SIZE) + 1] = (val % 100) \div 10,
                !.ram[((m.i + 2) % RAM_SIZE) + 1] = val % 10]

\* Faulty variant: the second digit is the number of tens, hundreds included.
ExecBcdAllTens(m, x) ==
  LET val == m.registers[x]
  IN  IF m.i >= RAM_SIZE THEN Panic(m, "bounds")
      ELSE LET m1 == [m EXCEPT !.ram[m.i + 1] = val \div 100]
           IN  IF m.i + 1 >= RAM_SIZE THEN Panic(m1, "bounds")
               ELSE LET m2 == [m1 EXCEPT !.ram[m.i + 2] = val \div 10]
                    IN  IF m.i + 2 >= RAM_SIZE THEN Panic(m2, "bounds")
                        ELSE [m2 EXCEPT !.ram[m.i + 3] = val % 10]

ExecBcd(m, x) ==
  LET val == m.registers[x]
  IN  IF m.i >= RAM_SIZE THEN Panic(m, "bounds")
      ELSE LET m1 == [m EXCEPT !.ram[m.i + 1] = val \div 100]
           IN  IF m.i + 1 >= RAM_SIZE THEN Panic(m1, "bounds")
               ELSE LET m2 == [m1 EXCEPT !.ram[m.i + 2] = (val % 100) \div 10]
                    IN  IF m.i + 2 >= RAM_SIZE THEN Panic(m2, "bounds")
                        ELSE [m2 EXCEPT !.ram[m.i + 3] = val % 10]

(***************************************************************************)
(* Fx55 and Fx65 (lib.rs:330-336): the slice i..=i+x is checked against    *)
(* the RAM before anything is copied.                                      *)
(***************************************************************************)
\* Faulty variant: the store leaves I behind the bytes it wrote.
ExecStoreRegistersAdvancingIndex(m, x) ==
  IF m.i + x >= RAM_SIZE THEN Panic(m, "bounds")
  ELSE [m EXCEPT !.ram = SubSeq(m.ram, 1, m.i)
                            \o [k \in 1..(x + 1) |-> m.registers[k - 1]]
                            \o SubSeq(m.ram, m.i + x + 2, RAM_SIZE),
                 !.i = m.i + x + 1]

ExecStoreRegisters(m, x) ==
  IF m.i + x >= RAM_SIZE THEN Panic(m, "bounds")
  ELSE [m EXCEPT !.ram = SubSeq(m.ram, 1, m.i)
                            \o [k \in 1..(x + 1) |-> m.registers[k - 1]]
                            \o SubSeq(m.ram, m.i + x + 2, RAM_SIZE)]

ExecLoadRegisters(m, x) ==
  IF m.i + x >= RAM_SIZE THEN Panic(m, "bounds")
  ELSE [m EXCEPT !.registers = [r \in 0..15 |->
                                  IF r <= x THEN RamAt(m.ram, m.i + r) ELSE m.registers[r]]]

(***************************************************************************)
(* 2nnn (lib.rs:289-292): push the PC, which is still the address of the   *)
(* call, and jump.                                                         *)
(***************************************************************************)
\* Faulty variant: the call pushes the address of the next instruction.
ExecCallPushesNext(m, nnn) ==
  [m EXCEPT !.stack = Append(@, m.pc + 2), !.pc = nnn]

ExecCall(m, nnn) ==
  [m EXCEPT !.stack = Append(@, m.pc), !.pc = nnn]

(***************************************************************************)
(* 00EE (lib.rs:293-298): pop into the PC; an empty stack is an Err, which *)
(* tick turns into a panic.                                                *)
(***************************************************************************)
\* Faulty variant: a return with an empty stack does nothing.
ExecReturnIgnoringUnderflow(m) ==
  IF m.stack = << >> THEN m
  ELSE [m EXCEPT !.pc = m.stack[Len(m.stack)],
                 !.stack = SubSeq(m.stack, 1, Len(m.stack) - 1)]

ExecReturn(m) ==
  IF m.stack = << >> THEN Panic(m, "execute")
  ELSE [m EXCEPT !.pc = m.stack[Len(m.stack)],
                 !.stack = SubSeq(m.stack, 1, Len(m.stack) - 1)]

(***************************************************************************)
(* 7xnn (lib.rs:284-287): u8::overflowing_add, the carry dropped.          *)
(***************************************************************************)
\* Faulty variant: the carry of the addition goes to VF.
ExecAdd7XNNWithCarry(m, x, nn) ==
  LET sum == m.registers[x] + nn
  IN  [m EXCEPT !.registers[x] = sum % 256,
                !.registers[15] = IF sum > 255 THEN 1 ELSE 0]

ExecAdd7XNN(m, x, nn) ==
  [m EXCEPT !.registers[x] = (m.registers[x] + nn) % 256]

(***************************************************************************)
(* 8xy4 (lib.rs:354-358): the sum goes to Vx, then the carry to VF.        *)
(***************************************************************************)
\* Faulty variant: the carry is that of a 7-bit addition.
ExecRegisterAdd8XY4SignedCarry(m, x, y) ==
  LET sum == m.registers[x] + m.registers[y]
  IN  [m EXCEPT !.registers[x] = sum % 256,
                !.registers[15] = IF sum > 127 THEN 1 ELSE 0]

ExecRegisterAdd8XY4(m, x, y) ==
  LET sum == m.registers[x] + m.registers[y]
      m1 == [m EXCEPT !.registers[x] = sum % 256]
  IN  [m1 EXCEPT !.registers[15] = IF sum > 255 THEN 1 ELSE 0]

(***************************************************************************)
(* 8xy5 and 8xy7 (lib.rs:362-371): u8::overflowing_sub; the difference     *)
(* goes to Vx, then the negated borrow to VF.                              *)
(***************************************************************************)
\* Faulty variant: VF is the borrow.
ExecRegisterSub8XY5FlagIsBorrow(m, x, y) ==
  LET a == m.registers[x]
      b == m.registers[y]
      m1 == [m EXCEPT !.registers[x] = (a - b + 256) % 256]
  IN  [m1 EXCEPT !.registers[15] = IF a < b THEN 1 ELSE 0]

ExecRegisterSub8XY5(m, x, y) ==
  LET a == m.registers[x]
      b == m.registers[y]
      m1 == [m EXCEPT !.registers[x] = (a - b + 256) % 256]
  IN  [m1 EXCEPT !.registers[15] = IF a < b THEN 0 ELSE 1]

ExecRegisterSubRev8XY7(m, x, y) ==
  LET a == m.registers[y]
      b == m.registers[x]
      m1 == [m EXCEPT !.registers[x] = (a - b + 256) % 256]
  IN  [m1 EXCEPT !.registers[15] = IF a < b THEN 0 ELSE 1]

(***************************************************************************)
(* 8xy6 and 8xyE (lib.rs:373-380): VF is written first, from Vx masked     *)
(* with 1 or with 1 << 7, and then Vx is shifted.                          *)
(***************************************************************************)
\* Faulty variant: VF is bit 0 of the shifted value.
ExecShiftRight8XY6FlagAfterShift(m, x) ==
  LET m1 == [m EXCEPT !.registers[x] = m.registers[x] \div 2]
  IN  [m1 EXCEPT !.registers[15] = m1.registers[x] % 2]

ExecShiftRight8XY6(m, x) ==
  LET m1 == [m EXCEPT !.registers[15] = m.registers[x] % 2]
  IN  [m1 EXCEPT !.registers[x] = m1.registers[x] \div 2]

ExecShiftLeft8XYE(m, x) ==
  LET m1 == [m EXCEPT !.registers[15] = BitAnd(m.registers[x], 128)]
  IN  [m1 EXCEPT !.registers[x] = (m1.registers[x] * 2) % 256]

(***************************************************************************)
(* Fx1E (lib.rs:323-329): usize::overflowing_add; VF is written only when  *)
(* the sum overflows a usize.  usize::MAX is 2^64 - 1 or 2^32 - 1; both    *)
(* exceed the integers of the model checker, and the index register of a   *)
(* run of the model stays far below either, so the largest integer of the  *)
(* checker stands for it.                                                  *)
(***************************************************************************)
USIZE_MAX == 65536 * 32767 + 65535

ExecAddToIndexFX1E(m, x) ==
  LET sum == m.i + m.registers[x]
  IN  IF sum > USIZE_MAX
      THEN [m EXCEPT !.i = sum - USIZE_MAX - 1, !.registers[15] = 1]
      ELSE [m EXCEPT !.i = sum]

(***************************************************************************)
(* Fx0A (lib.rs:372): the wait is recorded, whatever key is latched.       *)
(***************************************************************************)
\* Faulty variant: a key that is already latched is taken at once.
ExecGetKeyFX0ATakesLatchedKey(m, x) ==
  IF m.key_pressed # None THEN [m EXCEPT !.registers[x] = m.key_pressed[1]]
  ELSE [m EXCEPT !.waiting_for_input = Some(x)]

ExecGetKeyFX0A(m, x) == [m EXCEPT !.waiting_for_input = Some(x)]

(***************************************************************************)
(* Ex9E and ExA1 (lib.rs:341-350): the latched key against Some(Vx).       *)
(***************************************************************************)
ExecSkipIfKeyPressedEX9E(m, x) ==
  IF m.key_pressed = Some(m.registers[x]) THEN [m EXCEPT !.pc = @ + 2] ELSE m

\* Faulty variant: without a latched key there is no skip.
ExecSkipIfKeyNotPressedEXA1NeedsKey(m, x) ==
  IF m.key_pressed # None /\ m.key_pressed # Some(m.registers[x])
  THEN [m EXCEPT !.pc = @ + 2] ELSE m

ExecSkipIfKeyNotPressedEXA1(m, x) ==
  IF m.key_pressed # Some(m.registers[x]) THEN [m EXCEPT !.pc = @ + 2] ELSE m

(***************************************************************************)
(* execute_instruction (lib.rs:226-396).  r is the byte rand::random()     *)
(* returns, read by Cxnn only.  The arms write in the order of the code:   *)
(* in an EXCEPT the later write wins.                                      *)
(***************************************************************************)
ExecuteInstruction(m, inst, r) ==
  LET V == m.registers
  IN
  CASE inst.t = "Cls00E0" -> ExecCls(m)
    [] inst.t = "SetIndexRegisterANNN" -> [m EXCEPT !.i = inst.nnn]
    [] inst.t = "SetVRegister6XNN" -> [m EXCEPT !.registers[inst.x] = inst.nn]
    [] inst.t = "Dxyn" -> ExecDxyn(m, inst.x, inst.y, inst.n)
    [] inst.t = "Add7XNN" -> ExecAdd7XNN(m, inst.x, inst.nn)
    [] inst.t = "Jump1NNN" -> [m EXCEPT !.pc = inst.nnn]
    [] inst.t = "SubroutineCall2NNN" -> ExecCall(m, inst.nnn)
    [] inst.t = "SubroutineReturn00EE" -> ExecReturn(m)
    [] inst.t = "SkipEqual3XNN" ->
         IF V[inst.x] = inst.nn THEN [m EXCEPT !.pc = @ + 2] ELSE m
    [] inst.t = "SkipNotEqual4XNN" ->
         IF V[inst.x] # inst.nn THEN [m EXCEPT !.pc = @ + 2] ELSE m
    [] inst.t = "BinaryCodedDecimalConversionFX33" -> ExecBcd(m, inst.x)
    [] inst.t = "FontCharacterFX29" ->
         [m EXCEPT !.i = FONT_ADDR + V[inst.x] * FONT_SIZE]
    [] inst.t = "SetDelayTimerFX15" -> [m EXCEPT !.delay_timer = V[inst.x]]
    [] inst.t = "ReadDelayTimerFX07" -> [m EXCEPT !.registers[inst.x] = m.delay_timer]
    [] inst.t = "SetSoundTimerFX18" -> [m EXCEPT !.sound_timer = V[inst.x]]
    [] inst.t = "AddToIndexFX1E" -> ExecAddToIndexFX1E(m, inst.x)
    [] inst.t = "StoreRegistersToMemoryFX55" -> ExecStoreRegisters(m, inst.x)
    [] inst.t = "LoadRegistersFromMemoryFX65" -> ExecLoadRegisters(m, inst.x)
    [] inst.t = "RandomCXNN" -> [m EXCEPT !.registers[inst.x] = BitAnd(r, inst.nn)]
    [] inst.t = "SkipIfKeyPressedEX9E" -> ExecSkipIfKeyPressedEX9E(m, inst.x)
    [] inst.t = "SkipIfKeyNotPressedEXA1" -> ExecSkipIfKeyNotPressedEXA1(m, inst.x)
    [] inst.t = "BinaryAnd8XY2" ->
         [m EXCEPT !.registers[inst.x] = BitAnd(V[inst.x], V[inst.y])]
    [] inst.t = "RegisterAdd8XY4" -> ExecRegisterAdd8XY4(m, inst.x, inst.y)
    [] inst.t = "RegisterSet8XY0" -> [m EXCEPT !.registers[inst.x] = V[inst.y]]
    [] inst.t = "RegisterSub8XY5" -> ExecRegisterSub8XY5(m, inst.x, inst.y)
    [] inst.t = "RegisterSubRev8XY7" -> ExecRegisterSubRev8XY7(m, inst.x, inst.y)
    [] inst.t = "GetKeyFX0A" -> ExecGetKeyFX0A(m, inst.x)
    [] inst.t = "ShiftRight8XY6" -> ExecShiftRight8XY6(m, inst.x)
    [] inst.t = "ShiftLeft8XYE" -> ExecShiftLeft8XYE(m, inst.x)
    [] inst.t = "SkipIfEqual5XY0" ->
         IF V[inst.x] = V[inst.y] THEN [m EXCEPT !.pc = @ + 2] ELSE m
    [] inst.t = "SkipIfNotEqual9XY0" ->
         IF V[inst.x] # V[inst.y] THEN [m EXCEPT !.pc = @ + 2] ELSE m
    [] inst.t = "Xor8XY3" ->
         [m EXCEPT !.registers[inst.x] = BitXor(V[inst.x], V[inst.y])]

(***************************************************************************)
(* decrease_timers (lib.rs:206-209); u8::saturating_sub.                   *)
(***************************************************************************)
SaturatingSub(a, b) == IF a < b THEN 0 ELSE a - b

\* Faulty variant: wrapping instead of saturating subtraction.
DecreaseTimersWrapping(m) ==
  [m EXCEPT !.delay_timer = (@ + 255) % 256,
            !.sound_timer = (@ + 255) % 256]

DecreaseTimers(m) ==
  [m EXCEPT !.delay_timer = SaturatingSub(@, 1),
            !.sound_timer = SaturatingSub(@, 1)]

(***************************************************************************)
(* The beep update at the end of a cycle (lib.rs:195-201).  An Audio call  *)
(* is logged with the sound timer and the beeping flag it was made under.  *)
(***************************************************************************)
AudioCall(name, m) ==
  [call |-> name, sound_timer |-> m.sound_timer, beeping |-> m.beeping]

\* Faulty variant: stop_beep whenever the sound timer is 0, beeping or not.
UpdateBeepStopsUnconditionally(m) ==
  IF m.sound_timer > 0 /\ ~m.beeping
  THEN [m EXCEPT !.audio = Append(@, AudioCall("start_beep", m)), !.beeping = TRUE]
  ELSE IF m.sound_timer = 0
  THEN [m EXCEPT !.audio = Append(@, AudioCall("stop_beep", m)), !.beeping = FALSE]
  ELSE m

UpdateBeep(m) ==
  IF m.sound_timer > 0 /\ ~m.beeping
  THEN [m EXCEPT !.audio = Append(@, AudioCall("start_beep", m)), !.beeping = TRUE]
  ELSE IF m.sound_timer = 0 /\ m.beeping
  THEN [m EXCEPT !.audio = Append(@, AudioCall("stop_beep", m)), !.beeping = FALSE]
  ELSE m

(***************************************************************************)
(* The bytes rand::random::<u8>() may return.                              *)
(***************************************************************************)
RandomBytes == Byte

(***************************************************************************)
(* One iteration of the loop of tick past the wait test (lib.rs:189-201):  *)
(* fetch and decode (lib.rs:211-222), execute, advance the PC, update the  *)
(* beep.  The result is the set of machines the iteration may leave, one   *)
(* for each random byte when the instruction is Cxnn.  A cycle is logged   *)
(* in trace, when its instruction is decoded, with the address it was      *)
(* fetched at, the timers at that time, and the machine as the cycle found *)
(* it: its registers, index register, stack, latched key, framebuffer and  *)
(* memory, and the number of Graphics calls the operation had made.        *)
(***************************************************************************)
TraceEntry(m, inst) ==
  [addr |-> m.pc, inst |-> inst,
   delay_timer |-> m.delay_timer, sound_timer |-> m.sound_timer,
   before |-> [registers |-> m.registers, i |-> m.i, stack |-> m.stack,
               key_pressed |-> m.key_pressed, pixels |-> m.pixels,
               ram |-> m.ram, calls |-> Len(m.gfx)]]

AfterExecute(m, inst) ==
  IF m.fault # "none" THEN m
  ELSE UpdateBeep([m EXCEPT !.pc = @ + RequiresPcInc(inst)])

Cycle(m, le) ==
  IF m.pc >= RAM_SIZE \/ m.pc + 1 >= RAM_SIZE THEN {Panic(m, "address")}
  ELSE
    LET inst == InstructionNew(le, RamAt(m.ram, m.pc), RamAt(m.ram, m.pc + 1))
    IN  IF inst = DecodeErr THEN {Panic(m, "decode")}
        ELSE
          LET m1 == [m EXCEPT !.trace = Append(@, TraceEntry(m, inst))]
          IN  { AfterExecute(ExecuteInstruction(m1, inst, r), inst) :
                  r \in (IF inst.t = "RandomCXNN" THEN RandomBytes ELSE {0}) }

(***************************************************************************)
(* The loop of tick (lib.rs:184-202): k iterations are left.  A pending    *)
(* wait returns from tick; a panic ends it.                                *)
(***************************************************************************)
\* Faulty variant: the loop never tests the pending wait.
RECURSIVE RunCyclesIgnoringWait(_, _, _)
RunCyclesIgnoringWait(m, le, k) ==
  IF k = 0 \/ m.fault # "none" THEN {m}
  ELSE UNION { RunCyclesIgnoringWait(m1, le, k - 1) : m1 \in Cycle(m, le) }

\* Faulty variant: the loop tests the pending wait after the cycle, not before it.
RECURSIVE RunCyclesWaitTestedLate(_, _, _)
RunCyclesWaitTestedLate(m, le, k) ==
  IF k = 0 \/ m.fault # "none" THEN {m}
  ELSE UNION { IF m1.waiting_for_input # None THEN {m1}
               ELSE RunCyclesWaitTestedLate(m1, le, k - 1) : m1 \in Cycle(m, le) }

RECURSIVE RunCycles(_, _, _)
RunCycles(m, le, k) ==
  IF k = 0 \/ m.fault # "none" \/ m.waiting_for_input # None THEN {m}
  ELSE UNION { RunCycles(m1, le, k - 1) : m1 \in Cycle(m, le) }

(***************************************************************************)
(* tick (lib.rs:182-203).                                                  *)
(***************************************************************************)
\* Faulty variant: the timers follow the wall clock, so that a tick may find
\* them counted down or not.
TickResultsWallClockTimers(m, le) ==
  RunCycles(DecreaseTimers(m), le, m.clock \div FPS)
    \cup RunCycles(m, le, m.clock \div FPS)

TickResults(m, le) == RunCycles(DecreaseTimers(m), le, m.clock \div FPS)

(***************************************************************************)
(* store_in_ram (lib.rs:411-418).                                          *)
(***************************************************************************)
\* Faulty variant: a rom that ends on the last byte of the RAM is refused.
RomFitsStrictly(rom) == ~(Len(rom) + PROGRAM_START >= RAM_SIZE)

RomFits(rom) == ~(Len(rom) + PROGRAM_START > RAM_SIZE)

StoreInRamResult(m, rom) ==
  IF ~RomFits(rom) THEN m
  ELSE [m EXCEPT !.ram = SubSeq(m.ram, 1, PROGRAM_START)
                            \o rom
                            \o SubSeq(m.ram, PROGRAM_START + Len(rom) + 1, RAM_SIZE)]

(***************************************************************************)
(* handle_key_released (lib.rs:423-425) and handle_key_pressed             *)
(* (lib.rs:435-441).                                                       *)
(***************************************************************************)
\* Faulty variant: a release also drops the pending wait.
KeyReleasedDropsWait(m) ==
  [m EXCEPT !.key_pressed = None, !.waiting_for_input = None]

KeyReleasedResult(m) == [m EXCEPT !.key_pressed = None]

\* Faulty variant: a key that resolves a wait is consumed instead of latched.
KeyPressedConsumesKey(m, key) ==
  IF m.waiting_for_input # None
  THEN [m EXCEPT !.registers[m.waiting_for_input[1]] = key,
                 !.waiting_for_input = None]
  ELSE [m EXCEPT !.key_pressed = Some(key)]

KeyPressedResult(m, key) ==
  LET m1 == [m EXCEPT !.key_pressed = Some(key)]
  IN  IF m.waiting_for_input # None
      THEN [m1 EXCEPT !.registers[m.waiting_for_input[1]] = key,
                      !.waiting_for_input = None]
      ELSE m1

(***************************************************************************)
(* Bounds of the model and the inputs drawn within them.                   *)
(***************************************************************************)
MaxRate == 3
MaxKey == 1
MaxLoads == 2

\* Clock rates: the multiples of FPS up to MaxRate, and the last rate below
\* the next multiple.
Clocks == { q * FPS + r : q \in 0..MaxRate, r \in {0, FPS - 1} }

Keys == 0..MaxKey

\* 200: 6003  V0 := 3             202: F018  sound_timer := V0
\* 204: F015  delay_timer := V0   206: 6109  V1 := 9
\* 208: F10A  wait for a key into V1
\* 20A: F107  V1 := delay_timer   20C: 1202  jump to 202
BeepProgram == << 96, 3, 240, 24, 240, 21, 97, 9, 241, 10, 241, 7, 18, 2 >>

\* prog followed by FF bytes up to len bytes.
Rom(prog, len) == prog \o [k \in 1..(len - Len(prog)) |-> 255]

Roms ==
  { BeepProgram,
    Rom(BeepProgram, RAM_SIZE - PROGRAM_START),
    Rom(BeepProgram, RAM_SIZE - PROGRAM_START + 1) }

Ok == [t |-> "Ok"]
Err == [t |-> "Err"]

(***************************************************************************)
(* The machine right after Chip8::new(c), on either byte order.            *)
(***************************************************************************)
InitMachine(c) ==
  LET m == Chip8New(c)
  IN  /\ clock = m.clock
      /\ pixels = m.pixels
      /\ ram = m.ram
      /\ pc = m.pc
      /\ i = m.i
      /\ stack = m.stack
      /\ registers = m.registers
      /\ delay_timer = m.delay_timer
      /\ sound_timer = m.sound_timer
      /\ beeping = m.beeping
      /\ key_pressed = m.key_pressed
      /\ waiting_for_input = m.waiting_for_input
      /\ fault = m.fault
      /\ gfx = m.gfx
      /\ audio = m.audio
      /\ trace = m.trace

Init ==
  /\ \E c \in Clocks : InitMachine(c)
  /\ little_endian \in BOOLEAN
  /\ op = "new"
  /\ arg = << >>
  /\ ret = Ok
  /\ loads = 0
  /\ stored = 0
  /\ last_cycle = None
  /\ last_audio = "none"

(***************************************************************************)
(* The operations of the host.  A panic unwinds out of tick and ends the   *)
(* run: no operation follows it.                                           *)
(***************************************************************************)
Tick ==
  /\ fault = "none"
  /\ \E m \in TickResults(Machine, little_endian) : SetMachine(m)
  /\ op' = "tick"
  /\ arg' = << >>
  /\ ret' = Ok
  /\ UNCHANGED << little_endian, loads, stored >>

KeyPressed ==
  /\ fault = "none"
  /\ \E key \in Keys :
       /\ SetMachine(KeyPressedResult(Machine, key))
       /\ arg' = << key >>
  /\ op' = "handle_key_pressed"
  /\ ret' = Ok
  /\ UNCHANGED << little_endian, loads, stored >>

KeyReleased ==
  /\ fault = "none"
  /\ SetMachine(KeyReleasedResult(Machine))
  /\ op' = "handle_key_released"
  /\ arg' = << >>
  /\ ret' = Ok
  /\ UNCHANGED << little_endian, loads, stored >>

StoreInRam ==
  /\ fault = "none"
  /\ loads < MaxLoads
  /\ \E rom \in Roms :
       /\ SetMachine(StoreInRamResult(Machine, rom))
       /\ arg' = rom
       /\ ret' = IF RomFits(rom) THEN Ok ELSE Err
       /\ stored' = IF RomFits(rom) THEN stored + 1 ELSE stored
  /\ op' = "store_in_ram"
  /\ loads' = loads + 1
  /\ UNCHANGED little_endian

Next == Tick \/ KeyPressed \/ KeyReleased \/ StoreInRam

Spec == Init /\ [][Next]_vars

(***************************************************************************)
(* The decoder alone: Instruction::new applied to every pair of bytes, on  *)
(* either byte order.                                                      *)
(***************************************************************************)
DecodeInit ==
  /\ InitMachine(FPS)
  /\ little_endian \in BOOLEAN
  /\ op = "new"
  /\ arg \in Byte \X Byte
  /\ ret = Ok
  /\ loads = 0
  /\ stored = 0
  /\ last_cycle = None
  /\ last_audio = "none"

Decode ==
  /\ op = "new"
  /\ op' = "Instruction::new"
  /\ ret' = InstructionNew(little_endian, arg[1], arg[2])
  /\ UNCHANGED << clock, pixels, ram, pc, i, stack, registers, delay_timer,
                  sound_timer, beeping, key_pressed, waiting_for_input,
                  little_endian, fault, arg, gfx, audio, trace, loads,
                  stored, last_cycle, last_audio >>

SpecDecode == DecodeInit /\ [][Decode]_vars

(***************************************************************************)
(* Programs that draw, call, skip, compute and fault, for the host to load *)
(* right after Chip8::new, as main.rs:581-583 and bevy.rs:173-175 do.      *)
(***************************************************************************)
\* 200: 60vx  V0 := vx            202: 61vy  V1 := vy
\* 204: A220  I := 220            206: D013  draw 3 rows at (V0, V1)
\* 208: 7004  V0 := V0 + 4        20A: D013  draw 3 rows, over the first
\* 20C: A221  I := 221            20E: D011  draw the row 0F
\* 210: D010  draw no row         212: D013  draw 3 rows
\* 214: 00E0  clear               216: 00E0  clear
\* 218: 1200  jump to 200         220: FF 0F 81  the sprite
DrawProgram(vx, vy) ==
  << \H60, vx, \H61, vy, \HA2, \H20, \HD0, \H13, \H70, \H04, \HD0, \H13,
     \HA2, \H21, \HD0, \H11, \HD0, \H10, \HD0, \H13, \H00, \HE0, \H00, \HE0,
     \H12, \H00, 0, 0, 0, 0, 0, 0, \HFF, \H0F, \H81 >>

\* The values of (V0, V1) the drawing program starts from: the corner, the
\* last columns and rows, and values beyond the screen.
DrawOrigins == { << 0, 0 >>, << 60, 30 >>, << 250, 95 >> }

\* 200: 2206  call 206            202: 220A  call 20A
\* 204: 00EE  return              206: 220A  call 20A
\* 208: 00EE  return              20A: 00EE  return
CallProgram ==
  << \H22, \H06, \H22, \H0A, \H00, \HEE, \H22, \H0A, \H00, \HEE, \H00, \HEE >>

\* 200: 6005  V0 := 5             202: 3005  skip (V0 = 5)
\* 206: 3006  no skip             208: 4005  no skip
\* 20A: 4006  skip (V0 # 6)       20E: 6105  V1 := 5
\* 210: 5010  skip (V0 = V1)      214: 9010  no skip
\* 216: 6100  V1 := 0             218: 5010  no skip
\* 21A: 9010  skip (V0 # V1)      21E: E19E  skip if key V1 is latched
\* 220: E1A1  skip if key V1 is not latched
\* 222: F20A  wait for a key into V2
\* 224: 1200  jump to 200         204, 20C, 212, 21C: 0000 (skipped over)
SkipProgram ==
  << \H60, \H05, \H30, \H05, 0, 0, \H30, \H06, \H40, \H05, \H40, \H06, 0, 0,
     \H61, \H05, \H50, \H10, 0, 0, \H90, \H10, \H61, \H00, \H50, \H10,
     \H90, \H10, 0, 0, \HE1, \H9E, \HE1, \HA1, \HF2, \H0A, \H12, \H00 >>

\* 200: 60C8  V0 := 200           202: 6164  V1 := 100
\* 204: 8014  V0 := V0 + V1       206: 8015  V0 := V0 - V1
\* 208: 8017  V0 := V1 - V0       20A: 8012  V0 := V0 & V1
\* 20C: 8013  V0 := V0 ^ V1       20E: 8016  V0 := V0 >> 1
\* 210: 801E  V0 := V0 << 1       212: 8210  V2 := V1
\* 214: 70FF  V0 := V0 + 255      216: C301  V3 := random & 1
\* 218: F329  I := glyph of V3    21A: F315  delay_timer := V3
\* 21C: F318  sound_timer := V3   21E: A300  I := 300
\* 220: F11E  I := I + V1         222: F133  BCD of V1 at I
\* 224: F255  store V0..V2 at I   226: F265  load V0..V2 from I
\* 228: 1228  jump to 228
AluProgram ==
  << \H60, \HC8, \H61, \H64, \H80, \H14, \H80, \H15, \H80, \H17, \H80, \H12,
     \H80, \H13, \H80, \H16, \H80, \H1E, \H82, \H10, \H70, \HFF, \HC3, \H01,
     \HF3, \H29, \HF3, \H15, \HF3, \H18, \HA3, \H00, \HF1, \H1E, \HF1, \H33,
     \HF2, \H55, \HF2, \H65, \H12, \H28 >>

\* 200: 607B  V0 := 123           202: FFFF  no instruction
UnknownOpcodeProgram == << \H60, \H7B, \HFF, \HFF >>

\* 200: 607B  V0 := 123           202: 1FFF  jump to FFF
JumpToEndProgram == << \H60, \H7B, \H1F, \HFF >>

\* 200: 607B  V0 := 123           202: AFlo  I := F00 + lo
\* 204: b1b2  an instruction that reads or writes memory at I
\* 206: 1200  jump to 200
IndexProgram(lo, b1, b2) ==
  << \H60, \H7B, \HAF, lo, b1, b2, \H12, \H00 >>

\* I = FFB .. FFF, with D005, F033, F355 and F365.
IndexPrograms ==
  { IndexProgram(lo, b[1], b[2]) :
      lo \in \HFB..\HFF,
      b \in { << \HD0, \H05 >>, << \HF0, \H33 >>, << \HF3, \H55 >>, << \HF3, \H65 >> } }

\* 200: 60vv  V0 := v             202: AFF0  I := FF0
\* 204: F01E  I := I + V0         206: 1200  jump to 200
AddToIndexProgram(v) ==
  << \H60, v, \HAF, \HF0, \HF0, \H1E, \H12, \H00 >>

\* FF0 + v is FFF, the last address of the RAM, with v = 0F, and is beyond
\* it with v = 10 and v = FF.
AddToIndexPrograms == { AddToIndexProgram(v) : v \in { \H0F, \H10, \HFF } }

\* 200: 6007  V0 := 7             202: F029  I := glyph of V0 (50 + 5 * 7)
\* 204: F033  BCD of V0 at I       206: F029  I := glyph of V0
\* 208: F155  store V0..V1 at I    20A: 1200  jump to 200
FontProgram ==
  << \H60, \H07, \HF0, \H29, \HF0, \H33, \HF0, \H29, \HF1, \H55, \H12, \H00 >>

\* 200: 600B  V0 := 11            202: 6116  V1 := 22
\* 204: 6221  V2 := 33            206: 6F2C  VF := 44
\* 208: A214  I := 214            20A: 6337  V3 := 55
\* 20C: F155  store V0..V1 at I   20E: 60FF  V0 := 255
\* 210: F165  load V0..V1 from I  212: 1200  jump to 200
\* 214: AA BB CC DD  data
StoreLoadProgram ==
  << \H60, \H0B, \H61, \H16, \H62, \H21, \H6F, \H2C, \HA2, \H14, \H63, \H37,
     \HF1, \H55, \H60, \HFF, \HF1, \H65, \H12, \H00, \HAA, \HBB, \HCC, \HDD >>

\* 200: 60vx  V0 := vx            202: 61vy  V1 := vy
\* 204: 620A  V2 := 10            206: F229  I := glyph of V2 (F0 90 F0 90 90)
\* 208: D015  draw 5 rows         20A: 7002  V0 := V0 + 2
\* 20C: D015  draw 5 rows, partly over the first
\* 20E: D015  the same again      210: 1200  jump to 200
DrawTwiceProgram(vx, vy) ==
  << \H60, vx, \H61, vy, \H62, \H0A, \HF2, \H29, \HD0, \H15, \H70, \H02,
     \HD0, \H15, \HD0, \H15, \H12, \H00 >>

\* 200: F20A  wait for a key into V2
\* 202: E29E  skip if key V2 is latched
\* 204: 1200  jump to 200         206: 6301  V3 := 1
\* 208: 1200  jump to 200
WaitKeyProgram ==
  << \HF2, \H0A, \HE2, \H9E, \H12, \H00, \H63, \H01, \H12, \H00 >>

Programs ==
  { DrawProgram(o[1], o[2]) : o \in DrawOrigins }
    \cup { WaitKeyProgram }
    \cup { DrawTwiceProgram(o[1], o[2]) : o \in DrawOrigins }
    \cup { StoreLoadProgram }
    \cup { CallProgram, SkipProgram, AluProgram, UnknownOpcodeProgram,
           JumpToEndProgram, FontProgram }
    \cup IndexPrograms
    \cup AddToIndexPrograms

\* The host loads a program into the machine it has just made.
LoadProgram ==
  /\ fault = "none"
  /\ op = "new"
  /\ \E rom \in Programs :
       /\ SetMachine(StoreInRamResult(Machine, rom))
       /\ arg' = rom
       /\ ret' = IF RomFits(rom) THEN Ok ELSE Err
       /\ stored' = IF RomFits(rom) THEN stored + 1 ELSE stored
  /\ op' = "store_in_ram"
  /\ loads' = loads + 1
  /\ UNCHANGED little_endian

NextPrograms == LoadProgram \/ Tick \/ KeyPressed \/ KeyReleased

SpecPrograms == Init /\ [][NextPrograms]_vars

(***************************************************************************)
(* Programs that compute: one for each pair of operands, run on a machine  *)
(* made with the fastest clock of the model.                               *)
(***************************************************************************)
\* 200: 60aa  V0 := a             202: 61bb  V1 := b
\* 204: 8014  V0 := V0 + V1       206: 62aa  V2 := a
\* 208: 8215  V2 := V2 - V1       20A: 63aa  V3 := a
\* 20C: 8317  V3 := V1 - V3       20E: 64aa  V4 := a
\* 210: 8406  V4 := V4 >> 1       212: 65aa  V5 := a
\* 214: 851E  V5 := V5 << 1       216: 66aa  V6 := a
\* 218: 76bb  V6 := V6 + b        21A: 67aa  V7 := a
\* 21C: A300  I := 300            21E: F733  BCD of V7 at I
\* 220: 1220  jump to 220
ArithProgram(a, b) ==
  << \H60, a, \H61, b, \H80, \H14, \H62, a, \H82, \H15, \H63, a, \H83, \H17,
     \H64, a, \H84, \H06, \H65, a, \H85, \H1E, \H66, a, \H76, b, \H67, a,
     \HA3, \H00, \HF7, \H33, \H12, \H20 >>

\* Operands at and around the ends of the byte range and of the decimal
\* hundreds.
EdgeBytes == { 0, 1, 2, 99, 100, 127, 128, 129, 200, 254, 255 }

\* Every byte as the first operand, and every pair of edge bytes.
ArithOperands == (Byte \X {1}) \cup (EdgeBytes \X EdgeBytes)

\* The same operations with VF as their destination.
\* 200: 6Faa  VF := a             202: 61bb  V1 := b
\* 204: 8F14  VF := VF + V1       206: 6Faa  VF := a
\* 208: 8F15  VF := VF - V1       20A: 6Faa  VF := a
\* 20C: 8F17  VF := V1 - VF       20E: 6Faa  VF := a
\* 210: 8F16  VF := VF >> 1       212: 6Faa  VF := a
\* 214: 8F1E  VF := VF << 1       216: 1216  jump to 216
FlagProgram(a, b) ==
  << \H6F, a, \H61, b, \H8F, \H14, \H6F, a, \H8F, \H15, \H6F, a, \H8F, \H17,
     \H6F, a, \H8F, \H16, \H6F, a, \H8F, \H1E, \H12, \H16 >>

ArithPrograms ==
  { ArithProgram(o[1], o[2]) : o \in ArithOperands }
    \cup { FlagProgram(o[1], o[2]) : o \in ArithOperands }

InitArith ==
  /\ InitMachine(MaxRate * FPS)
  /\ little_endian \in BOOLEAN
  /\ op = "new"
  /\ arg = << >>
  /\ ret = Ok
  /\ loads = 0
  /\ stored = 0
  /\ last_cycle = None
  /\ last_audio = "none"

LoadArithProgram ==
  /\ fault = "none"
  /\ op = "new"
  /\ \E rom \in ArithPrograms :
       /\ SetMachine(StoreInRamResult(Machine, rom))
       /\ arg' = rom
       /\ ret' = IF RomFits(rom) THEN Ok ELSE Err
       /\ stored' = IF RomFits(rom) THEN stored + 1 ELSE stored
  /\ op' = "store_in_ram"
  /\ loads' = loads + 1
  /\ UNCHANGED little_endian

NextArith == LoadArithProgram \/ Tick

SpecArith == InitArith /\ [][NextArith]_vars

(***************************************************************************)
(*                              The claims                                 *)
(***************************************************************************)

(***************************************************************************)
(* The decode table of the specification: the opcode word b1 b2 read as    *)
(* four hex digits n1 n2 n3 n4, with x = n2, y = n3, n = n4, nn = b2 and   *)
(* nnn = (x << 8) | nn.                                                    *)
(***************************************************************************)
DecodeTable(b1, b2) ==
  LET w == b1 * 256 + b2
      n1 == w \div 4096
      x == (w \div 256) % 16
      y == (w \div 16) % 16
      n == w % 16
      nn == w % 256
      nnn == w % 4096
      alu == [k \in {0, 2, 3, 4, 5, 6, 7, 14} |->
                CASE k = 0 -> "RegisterSet8XY0" [] k = 2 -> "BinaryAnd8XY2"
                  [] k = 3 -> "Xor8XY3" [] k = 4 -> "RegisterAdd8XY4"
                  [] k = 5 -> "RegisterSub8XY5" [] k = 6 -> "ShiftRight8XY6"
                  [] k = 7 -> "RegisterSubRev8XY7" [] k = 14 -> "ShiftLeft8XYE"]
      fx == [k \in {7, 10, 21, 24, 30, 41, 51, 85, 101} |->
               CASE k = 7 -> "ReadDelayTimerFX07" [] k = 10 -> "GetKeyFX0A"
                 [] k = 21 -> "SetDelayTimerFX15" [] k = 24 -> "SetSoundTimerFX18"
                 [] k = 30 -> "AddToIndexFX1E" [] k = 41 -> "FontCharacterFX29"
                 [] k = 51 -> "BinaryCodedDecimalConversionFX33"
                 [] k = 85 -> "StoreRegistersToMemoryFX55"
                 [] k = 101 -> "LoadRegistersFromMemoryFX65"]
  IN  CASE w = 224 -> [t |-> "Cls00E0"]
        [] w = 238 -> [t |-> "SubroutineReturn00EE"]
        [] n1 = 1 -> [t |-> "Jump1NNN", nnn |-> nnn]
        [] n1 = 2 -> [t |-> "SubroutineCall2NNN", nnn |-> nnn]
        [] n1 = 3 -> [t |-> "SkipEqual3XNN", x |-> x, nn |-> nn]
        [] n1 = 4 -> [t |-> "SkipNotEqual4XNN", x |-> x, nn |-> nn]
        [] n1 = 5 /\ n = 0 -> [t |-> "SkipIfEqual5XY0", x |-> x, y |-> y]
        [] n1 = 6 -> [t |-> "SetVRegister6XNN", x |-> x, nn |-> nn]
        [] n1 = 7 -> [t |-> "Add7XNN", x |-> x, nn |-> nn]
        [] n1 = 8 /\ n \in DOMAIN alu -> [t |-> alu[n], x |-> x, y |-> y]
        [] n1 = 9 /\ n = 0 -> [t |-> "SkipIfNotEqual9XY0", x |-> x, y |-> y]
        [] n1 = 10 -> [t |-> "SetIndexRegisterANNN", nnn |-> nnn]
        [] n1 = 12 -> [t |-> "RandomCXNN", x |-> x, nn |-> nn]
        [] n1 = 13 -> [t |-> "Dxyn", x |-> x, y |-> y, n |-> n]
        [] n1 = 14 /\ nn = 158 -> [t |-> "SkipIfKeyPressedEX9E", x |-> x]
        [] n1 = 14 /\ nn = 161 -> [t |-> "SkipIfKeyNotPressedEXA1", x |-> x]
        [] n1 = 15 /\ nn \in DOMAIN fx -> [t |-> fx[nn], x |-> x]
        [] OTHER -> [t |-> "Err"]

\* C1: for every byte pair (b1, b2), Instruction::new returns the variant and
\* operands the decode table assigns to the opcode (nnn = (x << 8) | nn), and
\* a decode failure for every pair the table does not list.
C1_DecodeMatchesTable ==
  op = "Instruction::new" => ret = DecodeTable(arg[1], arg[2])

\* What does hold of the decoder: on a little-endian target it is the decode
\* table, and on any target it agrees with the table on everything but nnn.
C1_DecodeMatchesTableLittleEndian ==
  (op = "Instruction::new" /\ little_endian) => ret = DecodeTable(arg[1], arg[2])

C1_DecodeVariantMatchesTable ==
  op = "Instruction::new" =>
    LET want == DecodeTable(arg[1], arg[2])
    IN  /\ ret.t = want.t
        /\ DOMAIN ret = DOMAIN want
        /\ \A f \in DOMAIN ret \ {"nnn"} : ret[f] = want[f]

\* The instruction cycles of the tick just made, as instruction names.
IsGetKey(k) == trace'[k].inst.t = "GetKeyFX0A"

\* C2: a tick on a machine that is not waiting for a key and does not fault
\* executes exactly floor(clock / 60) cycles, the first at the PC the tick
\* found, except that a cycle executing Fx0A is the last of its tick; a tick
\* on a machine that is already waiting executes no cycle.
C2_TickCycleCount ==
  [][ (op' = "tick" /\ fault' = "none") =>
        LET n == Len(trace')
            full == clock \div 60
        IN  IF waiting_for_input # None THEN n = 0
            ELSE /\ n <= full
                 /\ n > 0 => trace'[1].addr = pc
                 /\ \A k \in 1..(n - 1) : ~IsGetKey(k)
                 /\ n < full => (n > 0 /\ IsGetKey(n)) ]_vars

\* C2 witness: a tick that Fx0A cut short after two of its three cycles.
C2_Witness ==
  /\ op = "tick" /\ fault = "none" /\ clock \div 60 = 3
  /\ Len(trace) = 2 /\ trace[2].inst.t = "GetKeyFX0A"

\* C3: every tick decrements delay_timer and sound_timer by one, saturating
\* at 0, exactly once, whatever the clock rate and whether or not the machine
\* waits, and before the first instruction of the tick: the first cycle sees
\* the decremented timers, and after that a timer changes only by the Fx15 or
\* Fx18 that sets it.
DecrementedOnce(t) == IF t = 0 THEN 0 ELSE t - 1

C3_TimersDecrementOncePerTick ==
  [][ op' = "tick" =>
        LET n == Len(trace')
            \* the timers as cycle k found them, and as the tick left them
            dt(k) == IF k = 0 THEN DecrementedOnce(delay_timer)
                     ELSE IF k <= n THEN trace'[k].delay_timer ELSE delay_timer'
            st(k) == IF k = 0 THEN DecrementedOnce(sound_timer)
                     ELSE IF k <= n THEN trace'[k].sound_timer ELSE sound_timer'
        IN  /\ dt(1) = dt(0)
            /\ st(1) = st(0)
            /\ \A k \in 1..n :
                 /\ trace'[k].inst.t # "SetDelayTimerFX15" => dt(k + 1) = dt(k)
                 /\ trace'[k].inst.t # "SetSoundTimerFX18" => st(k + 1) = st(k) ]_vars

\* C3 witness: a tick that found both timers at 0 while the machine waited,
\* after ticks that counted them down.
C3_Witness ==
  /\ op = "tick" /\ trace = << >> /\ waiting_for_input # None
  /\ clock >= 60 /\ delay_timer = 0 /\ sound_timer = 0 /\ beeping

\* C4: while a key wait is pending a tick changes nothing but the two timers
\* and makes no Graphics call, and the wait stays pending across every
\* operation but handle_key_pressed.
C4_WaitingTickFrame ==
  [][ waiting_for_input # None =>
        /\ op' = "tick" =>
             /\ UNCHANGED << pc, i, registers, ram, stack, pixels, key_pressed,
                             waiting_for_input, beeping, clock, fault >>
             /\ delay_timer' \in {delay_timer, delay_timer - 1}
             /\ sound_timer' \in {sound_timer, sound_timer - 1}
             /\ gfx' = << >>
             /\ audio' = << >>
             /\ trace' = << >>
        /\ op' # "handle_key_pressed" => UNCHANGED waiting_for_input ]_vars

\* C4 witness: a tick made while the wait was pending, which moved a timer.
C4_Witness ==
  /\ op = "tick" /\ trace = << >> /\ waiting_for_input # None
  /\ clock >= 60 /\ delay_timer = 1

\* C5: if Fx0A with destination register x is executed at address A (which
\* leaves the wait for x pending) and handle_key_pressed(k) is then called,
\* then Vx = k and the wait is cleared, and the next tick that runs resumes
\* with the instruction at A + 2: Fx0A is not executed a second time.
C5_KeyWaitResumes ==
  [][ /\ (op' = "tick" /\ fault' = "none" /\ trace' # << >>
            /\ trace'[Len(trace')].inst.t = "GetKeyFX0A") =>
           waiting_for_input' = Some(trace'[Len(trace')].inst.x)
      /\ (op' = "handle_key_pressed" /\ waiting_for_input # None) =>
           /\ registers'[waiting_for_input[1]] = arg'[1]
           /\ waiting_for_input' = None
      /\ (op' = "tick" /\ waiting_for_input = None /\ last_cycle # None
            /\ last_cycle[1].inst.t = "GetKeyFX0A") =>
           /\ (clock \div 60 > 0 /\ fault' = "none") => trace' # << >>
           /\ trace' # << >> => trace'[1].addr = last_cycle[1].addr + 2 ]_vars

\* C5 witness: a tick whose first cycle is the instruction after the Fx0A of
\* the program, at 20A.
C5_Witness ==
  /\ op = "tick" /\ trace # << >>
  /\ trace[1].addr = 522 /\ trace[1].inst.t = "ReadDelayTimerFX07"

\* C6: handle_key_pressed(k) latches k; with no wait pending it changes
\* nothing else; with a wait for register x pending it also writes k into Vx
\* and clears the wait, and changes nothing else.
C6_KeyPressedFrame ==
  [][ op' = "handle_key_pressed" =>
        /\ key_pressed' = << arg'[1] >>
        /\ UNCHANGED << pc, i, ram, stack, delay_timer, sound_timer, pixels,
                        beeping, clock >>
        /\ gfx' = << >> /\ audio' = << >> /\ fault' = fault
        /\ IF waiting_for_input = None
           THEN UNCHANGED << registers, waiting_for_input >>
           ELSE /\ waiting_for_input' = None
                /\ \A r \in 0..15 :
                     registers'[r] = IF r = waiting_for_input[1] THEN arg'[1]
                                     ELSE registers[r] ]_vars

\* C6 witness: a key press that resolved the wait for V1 with a key other
\* than the value V1 held.
C6_Witness ==
  /\ op = "handle_key_pressed" /\ last_cycle # None
  /\ last_cycle[1].inst.t = "GetKeyFX0A" /\ last_cycle[1].inst.x = 1
  /\ waiting_for_input = None /\ registers[1] = arg[1] /\ arg[1] # 9

\* C7: handle_key_released clears the latched key and changes nothing else:
\* a pending wait stays pending and no register is written.
C7_KeyReleasedFrame ==
  [][ op' = "handle_key_released" =>
        /\ key_pressed' = None
        /\ UNCHANGED << waiting_for_input, registers, pc, i, ram, stack,
                        delay_timer, sound_timer, pixels, beeping, clock >>
        /\ gfx' = << >> /\ audio' = << >> /\ fault' = fault ]_vars

\* C7 witness: a release made while a wait was pending.
C7_Witness ==
  /\ op = "handle_key_released" /\ waiting_for_input # None /\ key_pressed = None

\* C8: start_beep and stop_beep calls strictly alternate, beginning with
\* start_beep; start_beep is made only with sound_timer > 0 and no beep
\* active, stop_beep only with sound_timer = 0 and a beep active.
C8_BeepCallsAlternate ==
  [][ LET calls == << last_audio >> \o [k \in 1..Len(audio') |-> audio'[k].call]
      IN  /\ \A k \in 1..(Len(calls) - 1) :
                /\ calls[k + 1] # calls[k]
                /\ calls[k] = "none" => calls[k + 1] = "start_beep"
          /\ \A k \in 1..Len(audio') :
                /\ audio'[k].call = "start_beep" =>
                     (audio'[k].sound_timer > 0 /\ calls[k] # "start_beep")
                /\ audio'[k].call = "stop_beep" =>
                     (audio'[k].sound_timer = 0 /\ calls[k] = "start_beep") ]_vars

\* C8 witness: a start_beep made after an earlier beep had been stopped, in
\* one tick.
C8_Witness ==
  /\ op = "tick" /\ Len(audio) = 2
  /\ audio[1].call = "stop_beep" /\ audio[2].call = "start_beep"

\* C9: at the end of every tick the beeping flag is true exactly when
\* sound_timer > 0.  (Stated of the ticks that do not fault, on a
\* little-endian target, where the decoder is the decode table.)
C9_BeepingIffSoundTimer ==
  (op = "tick" /\ fault = "none" /\ little_endian) => (beeping <=> sound_timer > 0)

\* C10: store_in_ram(rom) with len(rom) <= 4096 - 512 copies rom to
\* memory[512 .. 512 + len) and changes nothing else; with a longer rom it
\* returns an error and changes nothing at all.  (The byte at address a is
\* element a + 1 of ram.)
C10_StoreInRam ==
  [][ op' = "store_in_ram" =>
        LET rom == arg'
        IN  /\ UNCHANGED << pc, i, registers, stack, delay_timer, sound_timer,
                            pixels, beeping, key_pressed, waiting_for_input,
                            clock >>
            /\ gfx' = << >> /\ audio' = << >> /\ fault' = fault
            /\ IF Len(rom) <= 3584
               THEN /\ ret' = Ok
                    /\ Len(ram') = 4096
                    /\ SubSeq(ram', 1, 512) = SubSeq(ram, 1, 512)
                    /\ SubSeq(ram', 513, 512 + Len(rom)) = rom
                    /\ SubSeq(ram', 513 + Len(rom), 4096)
                         = SubSeq(ram, 513 + Len(rom), 4096)
               ELSE /\ ret' = Err
                    /\ ram' = ram ]_vars

\* C10 witness: a rom of exactly 3584 bytes loaded up to the last byte of the
\* RAM, into a machine that had run.
C10_Witness ==
  /\ op = "store_in_ram" /\ Len(arg) = 3584 /\ ret = Ok
  /\ ram[4096] = 255 /\ ram[513] = 96 /\ registers[0] = 3 /\ pc # 512

\* C10 witness: a rom of 3585 bytes refused by a machine that had run.
C10_WitnessTooBig ==
  /\ op = "store_in_ram" /\ Len(arg) = 3585 /\ ret = Err
  /\ ram[4096] = 0 /\ registers[0] = 3 /\ pc # 512

\* The bytes of memory from address a up to 4095 all hold zero.
ZeroFrom(r, a) == SubSeq(r, a + 1, 4096) = [k \in 1..(4096 - a) |-> 0]

\* C11 (as claimed): immediately after any successful store_in_ram(rom), every
\* memory byte at an address from 512 + len(rom) up to 4095 holds zero.
C11_TailZeroAfterAnyStore ==
  (op = "store_in_ram" /\ ret = Ok) => ZeroFrom(ram, 512 + Len(arg))

\* C11 (amended): immediately after the first successful store_in_ram(rom)
\* made on a machine since its construction, every memory byte at an address
\* from 512 + len(rom) up to 4095 holds zero.
C11_TailZeroAfterFirstStore ==
  (op = "store_in_ram" /\ ret = Ok /\ stored = 1) => ZeroFrom(ram, 512 + Len(arg))

\* C11 witness: the first successful load, of the 14-byte program, made after
\* a load that was refused.
C11_Witness ==
  /\ op = "store_in_ram" /\ ret = Ok /\ stored = 1 /\ loads = 2
  /\ Len(arg) = 14 /\ ram[513] = 96 /\ ram[526] = 2 /\ ram[527] = 0

(***************************************************************************)
(* The cycles of an operation, read off its log: tr is the trace, g the    *)
(* Graphics calls and px, pcv, vs, st the framebuffer, PC, registers and   *)
(* stack the operation left.  Cycle k found the machine of tr[k].before    *)
(* and left the machine cycle k + 1 found, or, if it is the last, the one  *)
(* the operation left.                                                     *)
(***************************************************************************)
PixelsAfter(tr, px, k) == IF k < Len(tr) THEN tr[k + 1].before.pixels ELSE px
PcAfter(tr, pcv, k) == IF k < Len(tr) THEN tr[k + 1].addr ELSE pcv
RegistersAfter(tr, vs, k) == IF k < Len(tr) THEN tr[k + 1].before.registers ELSE vs
StackAfter(tr, st, k) == IF k < Len(tr) THEN tr[k + 1].before.stack ELSE st
CallsOf(tr, g, k) ==
  SubSeq(g, tr[k].before.calls + 1,
         IF k < Len(tr) THEN tr[k + 1].before.calls ELSE Len(g))

\* The calls cs are one call for each cell in which the framebuffers before
\* and after differ, draw_pixel for a cell that went on and clear_pixel for
\* one that went off, each within the screen, and no other call.
CallsMatchFlips(cs, before, after) ==
  LET cells == { << cs[j].x, cs[j].y >> : j \in 1..Len(cs) }
  IN  /\ \A j \in 1..Len(cs) :
           /\ 0 <= cs[j].x /\ cs[j].x < 64 /\ 0 <= cs[j].y /\ cs[j].y < 32
           /\ before[cs[j].y][cs[j].x] # after[cs[j].y][cs[j].x]
           /\ cs[j].call = IF after[cs[j].y][cs[j].x] THEN "draw_pixel"
                           ELSE "clear_pixel"
      /\ Cardinality(cells) = Len(cs)
      /\ after = [y \in 0..31 |-> [x \in 0..63 |->
                    IF << x, y >> \in cells THEN ~before[y][x] ELSE before[y][x]]]

\* C12: the framebuffer starts blank, and every operation changes it in step
\* with its Graphics calls: each cycle of a tick makes exactly one call for
\* each cell it flips (draw_pixel for off-to-on, clear_pixel for on-to-off,
\* one clear_pixel per lit cell on 00E0) and no call for any other cell,
\* every call lies within 0 <= x < 64 and 0 <= y < 32, a cycle of an
\* instruction other than 00E0 and Dxyn leaves the framebuffer alone and
\* makes no call, and so does every operation other than tick.
C12_GraphicsCallsMirrorFramebuffer ==
  /\ pixels = [y \in 0..31 |-> [x \in 0..63 |-> FALSE]]
  /\ [][ IF op' = "tick" /\ trace' # << >>
         THEN /\ trace'[1].before.pixels = pixels
              /\ trace'[1].before.calls = 0
              /\ \A k \in 1..Len(trace') :
                   LET cs == CallsOf(trace', gfx', k)
                       before == trace'[k].before.pixels
                       after == PixelsAfter(trace', pixels', k)
                   IN  /\ CallsMatchFlips(cs, before, after)
                       /\ trace'[k].inst.t \notin {"Cls00E0", "Dxyn"} =>
                            (cs = << >> /\ after = before)
                       /\ trace'[k].inst.t = "Cls00E0" =>
                            \A y \in 0..31 : \A x \in 0..63 : ~after[y][x]
         ELSE pixels' = pixels /\ gfx' = << >> ]_vars

\* C12 witness: a tick in which a Dxyn turned cells on and others off, and a
\* tick in which 00E0 cleared lit cells.
C12_Witness ==
  /\ op = "tick"
  /\ \E k \in 1..Len(trace) :
       LET cs == CallsOf(trace, gfx, k)
       IN  /\ trace[k].inst.t = "Dxyn"
           /\ \E j \in 1..Len(cs) : cs[j].call = "draw_pixel"
           /\ \E j \in 1..Len(cs) : cs[j].call = "clear_pixel"

C12_WitnessCls ==
  /\ op = "tick"
  /\ \E k \in 1..Len(trace) :
       /\ trace[k].inst.t = "Cls00E0"
       /\ Len(CallsOf(trace, gfx, k)) > 1

\* Cycle k of the trace tr ran to its end: another cycle followed it, or the
\* operation ended without a fault (flt is the fault it ended with).
Completed(tr, flt, k) == k < Len(tr) \/ flt = "none"

\* Bit c of a sprite row, counted from the high bit: c = 0 is bit 7.
SpriteBit(row, c) ==
  CASE c = 0 -> row \div 128
    [] c = 1 -> (row \div 64) % 2
    [] c = 2 -> (row \div 32) % 2
    [] c = 3 -> (row \div 16) % 2
    [] c = 4 -> (row \div 8) % 2
    [] c = 5 -> (row \div 4) % 2
    [] c = 6 -> (row \div 2) % 2
    [] c = 7 -> row % 2

\* The cells a Dxyn toggles, by the claim: b is the machine the instruction
\* found (memory byte a is element a + 1 of b.ram).
SpriteCells(b, inst) ==
  LET ox == b.registers[inst.x] % 64
      oy == b.registers[inst.y] % 32
  IN  { << ox + rc[2], oy + rc[1] >> :
          rc \in { q \in (0..(inst.n - 1)) \X (0..7) :
                     /\ ox + q[2] < 64
                     /\ oy + q[1] < 32
                     /\ SpriteBit(b.ram[b.i + q[1] + 1], q[2]) = 1 } }

\* The cells in which two framebuffers differ.
Flipped(before, after) ==
  { cell \in (0..63) \X (0..31) :
      before[cell[2]][cell[1]] # after[cell[2]][cell[1]] }

\* C13: a Dxyn with origin (ox, oy) = (Vx mod 64, Vy mod 32) toggles the cells
\* (ox + c, oy + r), for sprite row r < n and bit column c < 8 counted from
\* the high bit, whose bit is 1 and for which ox + c < 64 and oy + r < 32, and
\* no other cell: bits at or beyond column 64 or row 32 are dropped and do
\* not wrap to column 0 or row 0.
C13_SpriteClipped ==
  [][ op' = "tick" =>
        \A k \in 1..Len(trace') :
          (trace'[k].inst.t = "Dxyn" /\ Completed(trace', fault', k)) =>
            Flipped(trace'[k].before.pixels, PixelsAfter(trace', pixels', k))
              = SpriteCells(trace'[k].before, trace'[k].inst) ]_vars

\* C13 witness: the three-row sprite FF 0F 81 drawn at (60, 30) on a blank
\* screen: row FF lights columns 60..63 of row 30, row 0F lights nothing in
\* row 31, the third row is dropped, and column 0 and row 0 stay dark.
C13_Witness ==
  /\ op = "tick" /\ Len(trace) = 1 /\ trace[1].inst.t = "Dxyn"
  /\ trace[1].inst.n = 3 /\ trace[1].before.i = 544
  /\ trace[1].before.registers[0] = 60 /\ trace[1].before.registers[1] = 30
  /\ \A y \in 0..31 : \A x \in 0..63 :
       /\ ~trace[1].before.pixels[y][x]
       /\ pixels[y][x] <=> (y = 30 /\ x >= 60)

\* C14: a 00EE executed with an empty call stack is a fatal error: its cycle
\* is the last the machine ever runs, it leaves the PC at the 00EE (no value
\* is popped into it and it is not advanced) and the stack empty, and no
\* operation follows the fault.
C14_ReturnUnderflowFatal ==
  [][ /\ fault = "none"
      /\ op' = "tick" =>
           \A k \in 1..Len(trace') :
             (trace'[k].inst.t = "SubroutineReturn00EE"
                /\ trace'[k].before.stack = << >>) =>
               /\ k = Len(trace')
               /\ fault' # "none"
               /\ pc' = trace'[k].addr
               /\ stack' = << >> ]_vars

\* C14 witness: the 00EE at 204 of the calling program, reached with the
\* stack empty again after two calls had returned.
C14_Witness ==
  /\ op = "tick" /\ fault = "execute" /\ pc = 516 /\ stack = << >>
  /\ trace # << >> /\ trace[Len(trace)].inst.t = "SubroutineReturn00EE"
  /\ trace[Len(trace)].addr = 516 /\ trace[Len(trace)].before.stack = << >>

\* The opcode cycle k of the trace tr fetched, and its low 12 bits.
OpcodeOf(tr, k) ==
  tr[k].before.ram[tr[k].addr + 1] * 256 + tr[k].before.ram[tr[k].addr + 2]

NnnOf(tr, k) == OpcodeOf(tr, k) % 4096

\* The last element of a nonempty sequence, and the elements before it.
Top(st) == st[Len(st)]
Pop(st) == SubSeq(st, 1, Len(st) - 1)

FetchFault(pcv, r) ==
  \/ pcv < 0
  \/ pcv + 1 > 4095
  \/ DecodeTable(r[pcv + 1], r[pcv + 2]).t = "Err"

\* The instruction of the logged cycle e reaches beyond the memory from I.
AccessFault(e) ==
  \/ e.inst.t = "Dxyn" /\ e.before.i + e.inst.n > 4096
  \/ e.inst.t = "BinaryCodedDecimalConversionFX33" /\ e.before.i + 2 > 4095
  \/ e.inst.t \in {"StoreRegistersToMemoryFX55", "LoadRegistersFromMemoryFX65"}
       /\ e.before.i + e.inst.x > 4095

\* C16: every fault inside a tick halts the machine.  A cycle whose
\* instruction reaches beyond the memory from I (Dxyn with I + n > 4096, Fx33
\* with I + 2 > 4095, Fx55 or Fx65 with I + x > 4095) is the last cycle, ends
\* in a fault and leaves the PC on that instruction.  Wherever the tick goes
\* on to fetch (at its start or after cycle j, with cycles left and no key
\* wait pending) and the PC or PC + 1 is outside the memory or the bytes there
\* are no instruction, no cycle runs from there: the tick ends in a fault with
\* the PC where it was.  No cycle runs at an address that fetches nothing (no
\* address wraps), and no operation follows a fault.
C16_FaultsHalt ==
  [][ /\ fault = "none"
      /\ op' = "tick" =>
           LET n == Len(trace')
               pcAt(j) == IF j < n THEN trace'[j + 1].addr ELSE pc'
               ramAt(j) == IF j < n THEN trace'[j + 1].before.ram ELSE ram'
               fetches(j) == /\ j < clock \div 60
                             /\ j = 0 => waiting_for_input = None
                             /\ j = n => waiting_for_input' = None
           IN  /\ \A k \in 1..n :
                    AccessFault(trace'[k]) =>
                      (k = n /\ fault' # "none" /\ pc' = trace'[k].addr)
               /\ \A j \in 0..n :
                    (fetches(j) /\ FetchFault(pcAt(j), ramAt(j))) =>
                      (j = n /\ fault' # "none") ]_vars

\* C16 witnesses: Fx33 at I = FFE, which faults after writing the bytes at
\* FFE and FFF; an opcode that is no instruction; a fetch at FFF after a jump
\* there; Dxyn with I + n = 4097; Fx55 and Fx65 with I + x = 4096.
C16_Witness ==
  /\ op = "tick" /\ fault = "bounds" /\ trace # << >>
  /\ trace[Len(trace)].inst.t = "BinaryCodedDecimalConversionFX33"
  /\ trace[Len(trace)].before.i = 4094 /\ pc = trace[Len(trace)].addr
  /\ ram[4095] = 1 /\ ram[4096] = 2 /\ ram[1] = 0

C16_WitnessDecode ==
  /\ op = "tick" /\ fault = "decode" /\ pc = 514
  /\ ram[515] = 255 /\ ram[516] = 255 /\ registers[0] = 123

C16_WitnessFetch ==
  /\ op = "tick" /\ fault = "address" /\ pc = 4095
  /\ trace # << >> /\ trace[Len(trace)].inst.t = "Jump1NNN"

C16_WitnessSprite ==
  /\ op = "tick" /\ fault = "bounds" /\ trace # << >>
  /\ trace[Len(trace)].inst.t = "Dxyn" /\ trace[Len(trace)].inst.n = 5
  /\ trace[Len(trace)].before.i = 4092 /\ pc = trace[Len(trace)].addr

C16_WitnessStore ==
  /\ op = "tick" /\ fault = "bounds" /\ trace # << >>
  /\ trace[Len(trace)].inst.t = "StoreRegistersToMemoryFX55"
  /\ trace[Len(trace)].inst.x = 3 /\ trace[Len(trace)].before.i = 4093
  /\ ram = trace[Len(trace)].before.ram

C16_WitnessLoad ==
  /\ op = "tick" /\ fault = "bounds" /\ trace # << >>
  /\ trace[Len(trace)].inst.t = "LoadRegistersFromMemoryFX65"
  /\ trace[Len(trace)].inst.x = 3 /\ trace[Len(trace)].before.i = 4093
  /\ registers = trace[Len(trace)].before.registers

\* The accesses that end on the last byte of the memory do not fault: Dxyn
\* with I + n = 4096 and Fx33 with I + 2 = 4095.
C16_WitnessLastByte ==
  /\ op = "tick" /\ fault = "none" /\ trace # << >>
  /\ \/ /\ trace[Len(trace)].inst.t = "Dxyn" /\ trace[Len(trace)].inst.n = 5
        /\ trace[Len(trace)].before.i = 4091
     \/ /\ trace[Len(trace)].inst.t = "BinaryCodedDecimalConversionFX33"
        /\ trace[Len(trace)].before.i = 4093 /\ ram[4096] = 3

\* The machine an operation left, with the Graphics calls, Audio calls and
\* cycles of the operation.
Outcome == [Machine EXCEPT !.gfx = gfx, !.audio = audio, !.trace = trace]

\* No cycle of the trace tr executed Cxnn.
NoRandom(tr) == \A k \in 1..Len(tr) : tr[k].inst.t # "RandomCXNN"

C17_WitnessRandom ==
  /\ op = "tick" /\ ~NoRandom(trace) /\ registers[3] = 1

\* The instruction cycle k of the trace tr fetched, by the decode table.
TableInst(tr, k) ==
  DecodeTable(tr[k].before.ram[tr[k].addr + 1], tr[k].before.ram[tr[k].addr + 2])

SkipInstructions ==
  { "SkipEqual3XNN", "SkipNotEqual4XNN", "SkipIfEqual5XY0", "SkipIfNotEqual9XY0",
    "SkipIfKeyPressedEX9E", "SkipIfKeyNotPressedEXA1" }

\* The condition of the skip instruction w holds in the machine b.
SkipCondition(w, b) ==
  CASE w.t = "SkipEqual3XNN" -> b.registers[w.x] = w.nn
    [] w.t = "SkipNotEqual4XNN" -> b.registers[w.x] # w.nn
    [] w.t = "SkipIfEqual5XY0" -> b.registers[w.x] = b.registers[w.y]
    [] w.t = "SkipIfNotEqual9XY0" -> b.registers[w.x] # b.registers[w.y]
    [] w.t = "SkipIfKeyPressedEX9E" -> b.key_pressed = << b.registers[w.x] >>
    [] w.t = "SkipIfKeyNotPressedEXA1" -> b.key_pressed # << b.registers[w.x] >>

\* The PC the claim gives after a cycle of the instruction w fetched at a in
\* the machine b (00EE is the subject of C19).
PcClaimed(w, a, b) ==
  CASE w.t \in {"Jump1NNN", "SubroutineCall2NNN"} -> w.nnn
    [] w.t \in SkipInstructions -> IF SkipCondition(w, b) THEN a + 4 ELSE a + 2
    [] OTHER -> a + 2

\* C18: after a completed cycle of an instruction fetched at A, PC = nnn for
\* 1nnn and 2nnn (nnn the low 12 bits of the opcode, no 2 added), PC = A + 4
\* for a skip instruction whose condition holds and A + 2 for one whose
\* condition does not, and PC = A + 2 for every other instruction but 00EE.
C18_PcAfterCycle ==
  [][ op' = "tick" =>
        \A k \in 1..Len(trace') :
          (Completed(trace', fault', k)
             /\ TableInst(trace', k).t # "SubroutineReturn00EE") =>
            PcAfter(trace', pc', k)
              = PcClaimed(TableInst(trace', k), trace'[k].addr, trace'[k].before) ]_vars

\* What does hold of the PC after a cycle: the same with nnn the operand of
\* the decoded instruction, which is the low 12 bits of the opcode on a
\* little-endian target.
C18_PcAfterCycleDecoded ==
  [][ op' = "tick" =>
        \A k \in 1..Len(trace') :
          (Completed(trace', fault', k)
             /\ trace'[k].inst.t # "SubroutineReturn00EE") =>
            PcAfter(trace', pc', k)
              = PcClaimed(trace'[k].inst, trace'[k].addr, trace'[k].before) ]_vars

C18_PcAfterCycleLittleEndian ==
  [][ (op' = "tick" /\ little_endian) =>
        \A k \in 1..Len(trace') :
          (Completed(trace', fault', k)
             /\ TableInst(trace', k).t # "SubroutineReturn00EE") =>
            PcAfter(trace', pc', k)
              = PcClaimed(TableInst(trace', k), trace'[k].addr, trace'[k].before) ]_vars

\* Cycles the claim is about, reached on either byte order: Ex9E with the key
\* latched (PC = A + 4), ExA1 with it latched (PC = A + 2), and a 2nnn.
C18_WitnessKeySkip ==
  /\ op = "tick"
  /\ \E k \in 1..Len(trace) :
       /\ trace[k].inst.t = "SkipIfKeyPressedEX9E"
       /\ trace[k].before.key_pressed = << 0 >>
       /\ PcAfter(trace, pc, k) = trace[k].addr + 4

C18_WitnessKeyNoSkip ==
  /\ op = "tick"
  /\ \E k \in 1..Len(trace) :
       /\ trace[k].inst.t = "SkipIfKeyNotPressedEXA1"
       /\ trace[k].before.key_pressed = << 0 >>
       /\ PcAfter(trace, pc, k) = trace[k].addr + 2

C18_WitnessCallBigEndian ==
  /\ op = "tick" /\ ~little_endian
  /\ \E k \in 1..Len(trace) :
       /\ trace[k].inst.t = "SubroutineCall2NNN" /\ trace[k].addr = 512
       /\ PcAfter(trace, pc, k) = 1538

\* C19 (as claimed): 00EE skips the generic PC advance: after a cycle that
\* executes 00EE, PC is the popped address exactly, with no 2 added.
C19_ReturnSkipsAdvance ==
  [][ op' = "tick" =>
        \A k \in 1..Len(trace') :
          (trace'[k].inst.t = "SubroutineReturn00EE"
             /\ Completed(trace', fault', k)) =>
            PcAfter(trace', pc', k) = Top(trace'[k].before.stack) ]_vars

\* C19 (amended): 00EE gets the generic PC advance: after a cycle that
\* executes 00EE, PC is the popped address plus 2.
C19_ReturnGetsAdvance ==
  [][ op' = "tick" =>
        \A k \in 1..Len(trace') :
          (trace'[k].inst.t = "SubroutineReturn00EE"
             /\ Completed(trace', fault', k)) =>
            PcAfter(trace', pc', k) = Top(trace'[k].before.stack) + 2 ]_vars

\* C19 witness: the return at 208 of the calling program pops 200 and leaves
\* PC = 202, where the next call is.
C19_Witness ==
  /\ op = "tick" /\ fault = "none" /\ trace # << >>
  /\ trace[Len(trace)].inst.t = "SubroutineReturn00EE"
  /\ trace[Len(trace)].addr = 520
  /\ trace[Len(trace)].before.stack = << 512 >>
  /\ pc = 514 /\ stack = << >>

\* The cells that are on in the framebuffer before and off in after.
TurnedOff(before, after) ==
  { cell \in (0..63) \X (0..31) :
      before[cell[2]][cell[1]] /\ ~after[cell[2]][cell[1]] }

\* C20: after a Dxyn, VF = 1 if the draw turned at least one cell from on to
\* off and VF = 0 if it turned none off (as with n = 0, or with every set bit
\* of the sprite clipped), whatever VF held before.
C20_CollisionFlag ==
  [][ op' = "tick" =>
        \A k \in 1..Len(trace') :
          (trace'[k].inst.t = "Dxyn" /\ Completed(trace', fault', k)) =>
            RegistersAfter(trace', registers', k)[15] =
              IF TurnedOff(trace'[k].before.pixels,
                           PixelsAfter(trace', pixels', k)) # {}
              THEN 1 ELSE 0 ]_vars

\* C20 witness: the row 0F drawn at column 62 with VF = 1 from the draw
\* before: every set bit is clipped, no cell changes and VF = 0.
C20_Witness ==
  /\ op = "tick"
  /\ \E k \in 1..Len(trace) :
       /\ trace[k].inst.t = "Dxyn" /\ trace[k].inst.n = 1
       /\ trace[k].before.ram[trace[k].before.i + 1] = 15
       /\ trace[k].before.registers[0] % 64 = 62
       /\ trace[k].before.registers[15] = 1
       /\ PixelsAfter(trace, pixels, k) = trace[k].before.pixels
       /\ RegistersAfter(trace, registers, k)[15] = 0

\* A draw that found VF = 0, turned cells off and others on, and set VF = 1;
\* and a draw of no row that found VF = 1 and left VF = 0.
C20_WitnessCollision ==
  /\ op = "tick"
  /\ \E k \in 1..Len(trace) :
       /\ trace[k].inst.t = "Dxyn" /\ trace[k].before.registers[15] = 0
       /\ TurnedOff(trace[k].before.pixels, PixelsAfter(trace, pixels, k)) # {}
       /\ TurnedOff(PixelsAfter(trace, pixels, k), trace[k].before.pixels) # {}
       /\ RegistersAfter(trace, registers, k)[15] = 1

C20_WitnessNoRow ==
  /\ op = "tick"
  /\ \E k \in 1..Len(trace) :
       /\ trace[k].inst.t = "Dxyn" /\ trace[k].inst.n = 0
       /\ trace[k].before.registers[15] = 1
       /\ RegistersAfter(trace, registers, k)[15] = 0

(***************************************************************************)
(* C21. 7xnn with x other than F leaves (Vx + nn) mod 256 in Vx and every  *)
(* other register, VF included, as it was, whether or not the sum exceeds  *)
(* 255.                                                                    *)
(***************************************************************************)
C21_AddImmediateWraps ==
  [][ op' = "tick" =>
        \A k \in 1..Len(trace') :
          LET e == trace'[k]
          IN  (e.inst.t = "Add7XNN" /\ e.inst.x # 15 /\ Completed(trace', fault', k)) =>
                RegistersAfter(trace', registers', k) =
                  [e.before.registers EXCEPT
                     ![e.inst.x] = (e.before.registers[e.inst.x] + e.inst.nn) % 256] ]_vars

\* A 7xnn whose sum exceeds 255 has run with VF set, and VF is still set.
C21_Witness ==
  /\ op = "tick"
  /\ \E k \in 1..Len(trace) :
       /\ trace[k].inst.t = "Add7XNN"
       /\ trace[k].before.registers[trace[k].inst.x] + trace[k].inst.nn > 255
       /\ trace[k].before.registers[15] # 0
       /\ RegistersAfter(trace, registers, k)[15] = trace[k].before.registers[15]

\* 0xFF + 0x02 = 0x01.
C21_WitnessExample ==
  /\ op = "tick"
  /\ \E k \in 1..Len(trace) :
       /\ trace[k].inst.t = "Add7XNN"
       /\ trace[k].before.registers[trace[k].inst.x] = 255
       /\ trace[k].inst.nn = 2
       /\ RegistersAfter(trace, registers, k)[trace[k].inst.x] = 1

\* A 7xnn whose sum stays within a byte has run.
C21_WitnessNoOverflow ==
  /\ op = "tick"
  /\ \E k \in 1..Len(trace) :
       /\ trace[k].inst.t = "Add7XNN"
       /\ trace[k].before.registers[trace[k].inst.x] + trace[k].inst.nn < 256
       /\ trace[k].inst.nn > 0

(***************************************************************************)
(* C22. 8xy4 with x other than F leaves (Vx + Vy) mod 256 in Vx and sets   *)
(* VF to 1 when Vx + Vy exceeds 255 and to 0 when it does not.             *)
(***************************************************************************)
C22_AddWithCarry ==
  [][ op' = "tick" =>
        \A k \in 1..Len(trace') :
          LET e == trace'[k]
              sum == e.before.registers[e.inst.x] + e.before.registers[e.inst.y]
              after == RegistersAfter(trace', registers', k)
          IN  (e.inst.t = "RegisterAdd8XY4" /\ e.inst.x # 15
                 /\ Completed(trace', fault', k)) =>
                /\ after[e.inst.x] = sum % 256
                /\ after[15] = IF sum > 255 THEN 1 ELSE 0 ]_vars

\* 0xFF + 0x01 = 0x00 with VF = 1.
C22_Witness ==
  /\ op = "tick"
  /\ \E k \in 1..Len(trace) :
       /\ trace[k].inst.t = "RegisterAdd8XY4"
       /\ trace[k].before.registers[trace[k].inst.x] = 255
       /\ trace[k].before.registers[trace[k].inst.y] = 1
       /\ RegistersAfter(trace, registers, k)[trace[k].inst.x] = 0
       /\ RegistersAfter(trace, registers, k)[15] = 1

\* The largest sum without a carry: 0xFF + 0x00, with VF = 0.
C22_WitnessNoCarry ==
  /\ op = "tick"
  /\ \E k \in 1..Len(trace) :
       /\ trace[k].inst.t = "RegisterAdd8XY4"
       /\ trace[k].before.registers[trace[k].inst.x]
            + trace[k].before.registers[trace[k].inst.y] = 255
       /\ RegistersAfter(trace, registers, k)[15] = 0

(***************************************************************************)
(* C23. With x other than F, 8xy5 leaves (Vx - Vy) mod 256 in Vx and       *)
(* VF = 1 when Vx >= Vy, VF = 0 when Vx < Vy; 8xy7 leaves (Vy - Vx) mod    *)
(* 256 in Vx and VF = 1 when Vy >= Vx, VF = 0 when Vy < Vx.                *)
(***************************************************************************)
C23_SubtractNoBorrowFlag ==
  [][ op' = "tick" =>
        \A k \in 1..Len(trace') :
          LET e == trace'[k]
              vx == e.before.registers[e.inst.x]
              vy == e.before.registers[e.inst.y]
              after == RegistersAfter(trace', registers', k)
          IN  /\ (e.inst.t = "RegisterSub8XY5" /\ e.inst.x # 15
                     /\ Completed(trace', fault', k)) =>
                    /\ after[e.inst.x] = (vx - vy) % 256
                    /\ after[15] = IF vx >= vy THEN 1 ELSE 0
              /\ (e.inst.t = "RegisterSubRev8XY7" /\ e.inst.x # 15
                     /\ Completed(trace', fault', k)) =>
                    /\ after[e.inst.x] = (vy - vx) % 256
                    /\ after[15] = IF vy >= vx THEN 1 ELSE 0 ]_vars

\* 0x01 - 0x02 = 0xFF with VF = 0, by 8xy5.
C23_Witness ==
  /\ op = "tick"
  /\ \E k \in 1..Len(trace) :
       /\ trace[k].inst.t = "RegisterSub8XY5"
       /\ trace[k].before.registers[trace[k].inst.x] = 1
       /\ trace[k].before.registers[trace[k].inst.y] = 2
       /\ RegistersAfter(trace, registers, k)[trace[k].inst.x] = 255
       /\ RegistersAfter(trace, registers, k)[15] = 0

\* 8xy7 with a borrow: Vy < Vx, VF = 0.
C23_WitnessRevBorrow ==
  /\ op = "tick"
  /\ \E k \in 1..Len(trace) :
       /\ trace[k].inst.t = "RegisterSubRev8XY7"
       /\ trace[k].before.registers[trace[k].inst.y]
            < trace[k].before.registers[trace[k].inst.x]
       /\ RegistersAfter(trace, registers, k)[15] = 0

\* Equal operands, no borrow: 0 with VF = 1, by 8xy5.
C23_WitnessEqual ==
  /\ op = "tick"
  /\ \E k \in 1..Len(trace) :
       /\ trace[k].inst.t = "RegisterSub8XY5"
       /\ trace[k].before.registers[trace[k].inst.x]
            = trace[k].before.registers[trace[k].inst.y]
       /\ RegistersAfter(trace, registers, k)[trace[k].inst.x] = 0
       /\ RegistersAfter(trace, registers, k)[15] = 1

\* Equal operands, no borrow: 0 with VF = 1, by 8xy7.
C23_WitnessRevEqual ==
  /\ op = "tick"
  /\ \E k \in 1..Len(trace) :
       /\ trace[k].inst.t = "RegisterSubRev8XY7"
       /\ trace[k].before.registers[trace[k].inst.x]
            = trace[k].before.registers[trace[k].inst.y]
       /\ RegistersAfter(trace, registers, k)[trace[k].inst.x] = 0
       /\ RegistersAfter(trace, registers, k)[15] = 1

(***************************************************************************)
(* C24. 8xy6 with x other than F sets VF to bit 0 of the Vx it found and   *)
(* Vx to that Vx shifted right by one.                                     *)
(***************************************************************************)
C24_ShiftRight ==
  [][ op' = "tick" =>
        \A k \in 1..Len(trace') :
          LET e == trace'[k]
              after == RegistersAfter(trace', registers', k)
          IN  (e.inst.t = "ShiftRight8XY6" /\ e.inst.x # 15
                 /\ Completed(trace', fault', k)) =>
                /\ after[15] = e.before.registers[e.inst.x] % 2
                /\ after[e.inst.x] = e.before.registers[e.inst.x] \div 2 ]_vars

\* A Vx with bit 0 set and bit 1 clear: the bit shifted out is 1, the bit 0
\* of the result is 0.
C24_Witness ==
  /\ op = "tick"
  /\ \E k \in 1..Len(trace) :
       /\ trace[k].inst.t = "ShiftRight8XY6"
       /\ trace[k].before.registers[trace[k].inst.x] = 253
       /\ RegistersAfter(trace, registers, k)[trace[k].inst.x] = 126
       /\ RegistersAfter(trace, registers, k)[15] = 1

\* A Vx with bit 0 clear, shifted while VF was set.
C24_WitnessClear ==
  /\ op = "tick"
  /\ \E k \in 1..Len(trace) :
       /\ trace[k].inst.t = "ShiftRight8XY6"
       /\ trace[k].before.registers[trace[k].inst.x] = 254
       /\ trace[k].before.registers[15] = 1
       /\ RegistersAfter(trace, registers, k)[trace[k].inst.x] = 127
       /\ RegistersAfter(trace, registers, k)[15] = 0

(***************************************************************************)
(* C25. 8xyE with x other than F sets VF to bit 7 of the Vx it found, as   *)
(* the flag value 1 when the bit is set and 0 when it is clear, and Vx to  *)
(* (Vx * 2) mod 256.                                                       *)
(***************************************************************************)
C25_ShiftLeft ==
  [][ op' = "tick" =>
        \A k \in 1..Len(trace') :
          LET e == trace'[k]
              after == RegistersAfter(trace', registers', k)
          IN  (e.inst.t = "ShiftLeft8XYE" /\ e.inst.x # 15
                 /\ Completed(trace', fault', k)) =>
                /\ after[15] = IF e.before.registers[e.inst.x] >= 128 THEN 1 ELSE 0
                /\ after[e.inst.x] = (e.before.registers[e.inst.x] * 2) % 256 ]_vars

\* What the code does instead: VF is Vx masked with 0x80, that is 128 when
\* bit 7 is set; the shifted value is as claimed.
C25_ShiftLeftFlagIsMask ==
  [][ op' = "tick" =>
        \A k \in 1..Len(trace') :
          LET e == trace'[k]
              after == RegistersAfter(trace', registers', k)
          IN  (e.inst.t = "ShiftLeft8XYE" /\ e.inst.x # 15
                 /\ Completed(trace', fault', k)) =>
                /\ after[15] = IF e.before.registers[e.inst.x] >= 128 THEN 128 ELSE 0
                /\ after[e.inst.x] = (e.before.registers[e.inst.x] * 2) % 256 ]_vars

\* 0x81 shifted left: Vx = 0x02 and VF = 0x80.
C25_WitnessMask ==
  /\ op = "tick"
  /\ \E k \in 1..Len(trace) :
       /\ trace[k].inst.t = "ShiftLeft8XYE"
       /\ trace[k].before.registers[trace[k].inst.x] = 129
       /\ RegistersAfter(trace, registers, k)[trace[k].inst.x] = 2
       /\ RegistersAfter(trace, registers, k)[15] = 128

(***************************************************************************)
(* C26. Fx1E sets I to I + Vx, and sets VF to 1 whenever I + Vx exceeds    *)
(* 0xFFF.                                                                  *)
(***************************************************************************)
C26_AddToIndexFlagsOverflow ==
  [][ op' = "tick" =>
        \A k \in 1..Len(trace') :
          LET e == trace'[k]
              sum == e.before.i + e.before.registers[e.inst.x]
          IN  (e.inst.t = "AddToIndexFX1E" /\ Completed(trace', fault', k)) =>
                /\ (IF k < Len(trace') THEN trace'[k + 1].before.i ELSE i') = sum
                /\ sum > \HFFF => RegistersAfter(trace', registers', k)[15] = 1 ]_vars

\* What the code does instead: I takes the sum, beyond 0xFFF too, and no
\* register changes.
C26_AddToIndexKeepsRegisters ==
  [][ op' = "tick" =>
        \A k \in 1..Len(trace') :
          LET e == trace'[k]
              sum == e.before.i + e.before.registers[e.inst.x]
          IN  (e.inst.t = "AddToIndexFX1E" /\ Completed(trace', fault', k)) =>
                /\ (IF k < Len(trace') THEN trace'[k + 1].before.i ELSE i') = sum
                /\ RegistersAfter(trace', registers', k) = e.before.registers ]_vars

\* 0xFF0 + 0x10 on a little-endian target: I = 0x1000 and VF = 0.
C26_WitnessBeyond ==
  /\ op = "tick"
  /\ \E k \in 1..Len(trace) :
       /\ trace[k].inst.t = "AddToIndexFX1E"
       /\ trace[k].before.i = \HFF0
       /\ trace[k].before.registers[trace[k].inst.x] = \H10
       /\ k = Len(trace)
       /\ i = \H1000
       /\ registers[15] = 0

\* 0xFF0 + 0x0F = 0xFFF, the largest sum within 12 bits.
C26_WitnessWithin ==
  /\ op = "tick"
  /\ \E k \in 1..Len(trace) :
       /\ trace[k].inst.t = "AddToIndexFX1E"
       /\ k = Len(trace)
       /\ i = \HFFF

(***************************************************************************)
(* C27. After any sequence of store_in_ram calls, ticks and key events the *)
(* 80 bytes of memory at 0x50 .. 0x9F equal the font table.                *)
(***************************************************************************)
FontIn(r) == SubSeq(r, FONT_ADDR + 1, FONT_ADDR + Len(FONTS))

C27_FontTableImmutable == FontIn(ram) = FONTS

RamAfter(tr, r, k) == IF k < Len(tr) THEN tr[k + 1].before.ram ELSE r

\* The bytes an instruction may write: Fx33 three at I, Fx55 x + 1 at I.
Written(e) ==
  IF e.inst.t = "BinaryCodedDecimalConversionFX33" THEN e.before.i .. e.before.i + 2
  ELSE IF e.inst.t = "StoreRegistersToMemoryFX55" THEN e.before.i .. e.before.i + e.inst.x
  ELSE {}

\* What the code keeps instead: store_in_ram and the key events leave the
\* font bytes alone, and a cycle changes them only by an Fx33 or an Fx55
\* that writes at 0x50 .. 0x9F.
C27_FontChangedByGuestStores ==
  [][ /\ op' # "tick" => FontIn(ram') = FontIn(ram)
      /\ op' = "tick" =>
           \A k \in 1..Len(trace') :
             FontIn(RamAfter(trace', ram', k)) # FontIn(trace'[k].before.ram) =>
               Written(trace'[k]) \cap (FONT_ADDR .. FONT_ADDR + Len(FONTS) - 1) # {} ]_vars

\* Fx33 with I at the glyph of 7 has put the digits 0, 0, 7 over its first
\* three rows.
C27_WitnessOverwritten ==
  /\ op = "tick"
  /\ \E k \in 1..Len(trace) :
       /\ trace[k].inst.t = "BinaryCodedDecimalConversionFX33"
       /\ trace[k].before.i = FONT_ADDR + 7 * FONT_SIZE
       /\ FontIn(trace[k].before.ram) = FONTS
  /\ SubSeq(ram, FONT_ADDR + 7 * FONT_SIZE + 1, FONT_ADDR + 7 * FONT_SIZE + 5)
       \in { << 0, 0, 7, 64, 64 >>, << 7, 0, 7, 64, 64 >> }

(***************************************************************************)
(* C28. Fx55 copies V0..Vx to memory[I .. I+x] and changes no register and *)
(* no other byte of memory; Fx65 copies memory[I .. I+x] to V0..Vx and     *)
(* changes no memory and none of V(x+1)..VF; both leave I as it was; and   *)
(* an Fx65 that follows an Fx55 with the same x and I, with no store to    *)
(* memory between them, leaves in V0..Vx the values the Fx55 found there.  *)
(***************************************************************************)
IndexAfter(tr, iv, k) == IF k < Len(tr) THEN tr[k + 1].before.i ELSE iv

C28_StoreLoadRegisters ==
  [][ op' = "tick" =>
        \A k \in 1..Len(trace') :
          LET e == trace'[k]
              b == e.before
              ramAfter == RamAfter(trace', ram', k)
              regsAfter == RegistersAfter(trace', registers', k)
          IN  /\ (e.inst.t = "StoreRegistersToMemoryFX55"
                    /\ Completed(trace', fault', k)) =>
                   /\ \A a \in 0..(RAM_SIZE - 1) :
                        RamAt(ramAfter, a) =
                          IF a \in b.i .. b.i + e.inst.x
                          THEN b.registers[a - b.i] ELSE RamAt(b.ram, a)
                   /\ regsAfter = b.registers
                   /\ IndexAfter(trace', i', k) = b.i
              /\ (e.inst.t = "LoadRegistersFromMemoryFX65"
                    /\ Completed(trace', fault', k)) =>
                   /\ \A r \in 0..15 :
                        regsAfter[r] =
                          IF r <= e.inst.x THEN RamAt(b.ram, b.i + r) ELSE b.registers[r]
                   /\ ramAfter = b.ram
                   /\ IndexAfter(trace', i', k) = b.i
              /\ \A j \in (k + 1)..Len(trace') :
                   ( /\ e.inst.t = "StoreRegistersToMemoryFX55"
                     /\ trace'[j].inst.t = "LoadRegistersFromMemoryFX65"
                     /\ trace'[j].inst.x = e.inst.x
                     /\ trace'[j].before.i = b.i
                     /\ \A n \in (k + 1)..(j - 1) : Written(trace'[n]) = {}
                     /\ Completed(trace', fault', j) ) =>
                     \A r \in 0..e.inst.x :
                       RegistersAfter(trace', registers', j)[r] = b.registers[r] ]_vars

\* F155 has stored 11 and 22 over the bytes AA BB, with CC DD behind them
\* left alone, V0 has been set to 255 since, and F165 has brought 11 back.
C28_Witness ==
  /\ op = "tick"
  /\ Len(trace) = 3
  /\ trace[1].inst.t = "StoreRegistersToMemoryFX55"
  /\ trace[3].inst.t = "LoadRegistersFromMemoryFX65"
  /\ trace[1].before.i = trace[3].before.i
  /\ SubSeq(trace[1].before.ram, i + 1, i + 4) = << \HAA, \HBB, \HCC, \HDD >>
  /\ SubSeq(ram, i + 1, i + 4) = << 11, 22, \HCC, \HDD >>
  /\ trace[3].before.registers[0] = 255
  /\ registers[0] = 11 /\ registers[1] = 22 /\ registers[2] = 33
  /\ registers[15] = 44

\* F365 from memory that is not zero: the first bytes of the program.
C28_WitnessLoad ==
  /\ op = "tick"
  /\ \E k \in 1..Len(trace) :
       /\ trace[k].inst.t = "LoadRegistersFromMemoryFX65"
       /\ Completed(trace, fault, k)
       /\ trace[k].before.registers[0] # RamAt(trace[k].before.ram, trace[k].before.i)
       /\ RegistersAfter(trace, registers, k)[0]
            = RamAt(trace[k].before.ram, trace[k].before.i)
       /\ RegistersAfter(trace, registers, k)[0] # 0

(***************************************************************************)
(* C29. Fx33 writes the decimal digits of v = Vx, hundreds, tens and ones, *)
(* to memory[I], memory[I+1] and memory[I+2]: each digit is in 0..9 and    *)
(* 100 * hundreds + 10 * tens + ones = v; I, the registers and every other *)
(* byte of memory stay as they were.                                       *)
(***************************************************************************)
C29_BcdDigits ==
  [][ op' = "tick" =>
        \A k \in 1..Len(trace') :
          LET e == trace'[k]
              b == e.before
              v == b.registers[e.inst.x]
              ramAfter == RamAfter(trace', ram', k)
              digits == SubSeq(ramAfter, b.i + 1, b.i + 3)
          IN  (e.inst.t = "BinaryCodedDecimalConversionFX33"
                 /\ Completed(trace', fault', k)) =>
                /\ digits = << v \div 100, (v % 100) \div 10, v % 10 >>
                /\ \A d \in 1..3 : digits[d] \in 0..9
                /\ 100 * digits[1] + 10 * digits[2] + digits[3] = v
                /\ SubSeq(ramAfter, 1, b.i) = SubSeq(b.ram, 1, b.i)
                /\ SubSeq(ramAfter, b.i + 4, RAM_SIZE) = SubSeq(b.ram, b.i + 4, RAM_SIZE)
                /\ RegistersAfter(trace', registers', k) = b.registers
                /\ IndexAfter(trace', i', k) = b.i ]_vars

\* 157 gives 1, 5, 7.
C29_Witness ==
  /\ op = "tick"
  /\ \E k \in 1..Len(trace) :
       /\ trace[k].inst.t = "BinaryCodedDecimalConversionFX33"
       /\ trace[k].before.registers[trace[k].inst.x] = 157
       /\ SubSeq(RamAfter(trace, ram, k),
                 trace[k].before.i + 1, trace[k].before.i + 3) = << 1, 5, 7 >>

\* 255, the largest value, gives 2, 5, 5, and 9 gives 0, 0, 9.
C29_WitnessLargest ==
  /\ op = "tick"
  /\ \E k \in 1..Len(trace) :
       /\ trace[k].inst.t = "BinaryCodedDecimalConversionFX33"
       /\ trace[k].before.registers[trace[k].inst.x] = 255
       /\ SubSeq(RamAfter(trace, ram, k),
                 trace[k].before.i + 1, trace[k].before.i + 3) = << 2, 5, 5 >>

C29_WitnessOneDigit ==
  /\ op = "tick"
  /\ \E k \in 1..Len(trace) :
       /\ trace[k].inst.t = "BinaryCodedDecimalConversionFX33"
       /\ trace[k].before.registers[trace[k].inst.x] = 9
       /\ SubSeq(RamAfter(trace, ram, k),
                 trace[k].before.i + 1, trace[k].before.i + 3) = << 0, 0, 9 >>

(***************************************************************************)
(* C30. Ex9E skips the next instruction exactly when a key is latched and  *)
(* is Vx; ExA1 skips exactly when no key is latched or the latched key is  *)
(* not Vx; in every state exactly one of the two would skip, for every x;  *)
(* and neither changes the latched key.                                    *)
(***************************************************************************)
LatchedIs(key, v) == Len(key) = 1 /\ key[1] = v

KeyAfter(tr, key, k) == IF k < Len(tr) THEN tr[k + 1].before.key_pressed ELSE key

C30_KeySkips ==
  /\ [](\A x \in 0..15 :
          /\ (ExecSkipIfKeyPressedEX9E(Machine, x).pc = pc + 2)
               # (ExecSkipIfKeyNotPressedEXA1(Machine, x).pc = pc + 2)
          /\ ExecSkipIfKeyPressedEX9E(Machine, x).key_pressed = key_pressed
          /\ ExecSkipIfKeyNotPressedEXA1(Machine, x).key_pressed = key_pressed)
  /\ [][ op' = "tick" =>
           \A k \in 1..Len(trace') :
             LET e == trace'[k]
                 hit == LatchedIs(e.before.key_pressed, e.before.registers[e.inst.x])
             IN  /\ e.inst.t = "SkipIfKeyPressedEX9E" =>
                      /\ PcAfter(trace', pc', k) = e.addr + (IF hit THEN 4 ELSE 2)
                      /\ KeyAfter(trace', key_pressed', k) = e.before.key_pressed
                 /\ e.inst.t = "SkipIfKeyNotPressedEXA1" =>
                      /\ PcAfter(trace', pc', k) = e.addr + (IF hit THEN 2 ELSE 4)
                      /\ KeyAfter(trace', key_pressed', k) = e.before.key_pressed ]_vars

\* With no key latched Ex9E has not skipped and the ExA1 behind it has.
C30_Witness ==
  /\ op = "tick"
  /\ \E k \in 1..(Len(trace) - 1) :
       /\ trace[k].inst.t = "SkipIfKeyPressedEX9E"
       /\ trace[k + 1].inst.t = "SkipIfKeyNotPressedEXA1"
       /\ trace[k].before.key_pressed = None
       /\ trace[k + 1].addr = trace[k].addr + 2
       /\ PcAfter(trace, pc, k + 1) = trace[k + 1].addr + 4
       /\ KeyAfter(trace, key_pressed, k + 1) = None

\* With another key latched than Vx, Ex9E has not skipped and ExA1 has.
C30_WitnessOtherKey ==
  /\ op = "tick"
  /\ \E k \in 1..(Len(trace) - 1) :
       /\ trace[k].inst.t = "SkipIfKeyPressedEX9E"
       /\ trace[k + 1].inst.t = "SkipIfKeyNotPressedEXA1"
       /\ trace[k].before.key_pressed = Some(1)
       /\ trace[k].before.registers[trace[k].inst.x] = 0
       /\ PcAfter(trace, pc, k + 1) = trace[k + 1].addr + 4
       /\ KeyAfter(trace, key_pressed, k + 1) = Some(1)

\* With Vx latched, Ex9E has skipped.
C30_WitnessSameKey ==
  /\ op = "tick"
  /\ \E k \in 1..Len(trace) :
       /\ trace[k].inst.t = "SkipIfKeyPressedEX9E"
       /\ trace[k].before.key_pressed = Some(trace[k].before.registers[trace[k].inst.x])
       /\ PcAfter(trace, pc, k) = trace[k].addr + 4
       /\ KeyAfter(trace, key_pressed, k) = trace[k].before.key_pressed

\* With Vx latched, ExA1 has not skipped.
C30_WitnessSameKeyNotPressed ==
  /\ op = "tick"
  /\ \E k \in 1..Len(trace) :
       /\ trace[k].inst.t = "SkipIfKeyNotPressedEXA1"
       /\ trace[k].before.key_pressed = Some(trace[k].before.registers[trace[k].inst.x])
       /\ PcAfter(trace, pc, k) = trace[k].addr + 2
       /\ KeyAfter(trace, key_pressed, k) = trace[k].before.key_pressed

(***************************************************************************)
(* C31. With VF as the destination (x = F) of an instruction that produces *)
(* a flag, VF holds the flag after the instruction: the carry for 8Fy4,    *)
(* the no-borrow flag for 8Fy5 and 8Fy7, the bit shifted out for 8Fy6 and  *)
(* 8FyE.                                                                   *)
(***************************************************************************)
FlagInstructions ==
  { "RegisterAdd8XY4", "RegisterSub8XY5", "RegisterSubRev8XY7",
    "ShiftRight8XY6", "ShiftLeft8XYE" }

\* The flag of an instruction that finds vx in Vx and vy in Vy.
FlagOf(t, vx, vy) ==
  CASE t = "RegisterAdd8XY4" -> IF vx + vy > 255 THEN 1 ELSE 0
    [] t = "RegisterSub8XY5" -> IF vx >= vy THEN 1 ELSE 0
    [] t = "RegisterSubRev8XY7" -> IF vy >= vx THEN 1 ELSE 0
    [] t = "ShiftRight8XY6" -> vx % 2
    [] t = "ShiftLeft8XYE" -> vx \div 128

C31_FlagWrittenLast ==
  [][ op' = "tick" =>
        \A k \in 1..Len(trace') :
          LET e == trace'[k]
          IN  (e.inst.t \in FlagInstructions /\ e.inst.x = 15
                 /\ Completed(trace', fault', k)) =>
                RegistersAfter(trace', registers', k)[15] =
                  FlagOf(e.inst.t, e.before.registers[15],
                         e.before.registers[e.inst.y]) ]_vars

\* What the code does instead: 8Fy4, 8Fy5 and 8Fy7 leave the flag in VF,
\* 8Fy6 and 8FyE write the flag first and shift it out of VF.
C31_ShiftsLoseFlag ==
  [][ op' = "tick" =>
        \A k \in 1..Len(trace') :
          LET e == trace'[k]
          IN  (e.inst.t \in FlagInstructions /\ e.inst.x = 15
                 /\ Completed(trace', fault', k)) =>
                RegistersAfter(trace', registers', k)[15] =
                  IF e.inst.t \in { "ShiftRight8XY6", "ShiftLeft8XYE" } THEN 0
                  ELSE FlagOf(e.inst.t, e.before.registers[15],
                              e.before.registers[e.inst.y]) ]_vars

\* 8F16 has found VF = 1 and left VF = 0.
C31_WitnessShiftRight ==
  /\ op = "tick"
  /\ \E k \in 1..Len(trace) :
       /\ trace[k].inst.t = "ShiftRight8XY6" /\ trace[k].inst.x = 15
       /\ trace[k].before.registers[15] = 1
       /\ RegistersAfter(trace, registers, k)[15] = 0

\* 8F1E has found VF = 0x80 and left VF = 0.
C31_WitnessShiftLeft ==
  /\ op = "tick"
  /\ \E k \in 1..Len(trace) :
       /\ trace[k].inst.t = "ShiftLeft8XYE" /\ trace[k].inst.x = 15
       /\ trace[k].before.registers[15] = 128
       /\ RegistersAfter(trace, registers, k)[15] = 0

\* 8F14 has found VF = 0xFF and V1 = 1 and left the carry, 1, not the sum.
C31_WitnessCarry ==
  /\ op = "tick"
  /\ \E k \in 1..Len(trace) :
       /\ trace[k].inst.t = "RegisterAdd8XY4" /\ trace[k].inst.x = 15
       /\ trace[k].before.registers[15] = 255
       /\ trace[k].before.registers[trace[k].inst.y] = 1
       /\ RegistersAfter(trace, registers, k)[15] = 1

(***************************************************************************)
(* C32. A Dxyn executed twice in a row, with x and y other than F and with *)
(* the same Vx, Vy, I, n and sprite bytes, leaves the framebuffer as it    *)
(* was before the first of the two, and the second sets VF = 1 whenever    *)
(* the first turned at least one cell on.                                  *)
(***************************************************************************)
TurnedOn(before, after) == TurnedOff(after, before)

SpriteBytes(b, n) == SubSeq(b.ram, b.i + 1, b.i + n)

\* Cycles k and k + 1 of tr are the same Dxyn on the same operands.
SameDrawTwice(tr, flt, k) ==
  /\ k < Len(tr)
  /\ tr[k].inst.t = "Dxyn"
  /\ tr[k + 1].inst = tr[k].inst
  /\ tr[k].inst.x # 15 /\ tr[k].inst.y # 15
  /\ Completed(tr, flt, k + 1)
  /\ tr[k + 1].before.registers[tr[k].inst.x] = tr[k].before.registers[tr[k].inst.x]
  /\ tr[k + 1].before.registers[tr[k].inst.y] = tr[k].before.registers[tr[k].inst.y]
  /\ tr[k + 1].before.i = tr[k].before.i
  /\ SpriteBytes(tr[k + 1].before, tr[k].inst.n) = SpriteBytes(tr[k].before, tr[k].inst.n)

C32_DrawTwiceRestores ==
  [][ op' = "tick" =>
        \A k \in 1..Len(trace') :
          SameDrawTwice(trace', fault', k) =>
            /\ PixelsAfter(trace', pixels', k + 1) = trace'[k].before.pixels
            /\ TurnedOn(trace'[k].before.pixels, trace'[k + 1].before.pixels) # {} =>
                 RegistersAfter(trace', registers', k + 1)[15] = 1 ]_vars

\* The first of the two draws has turned cells on and cells off, on a screen
\* that was not blank; the second has put every cell back, with VF = 1.
C32_Witness ==
  /\ op = "tick"
  /\ \E k \in 1..Len(trace) :
       /\ SameDrawTwice(trace, fault, k)
       /\ TurnedOn(trace[k].before.pixels, trace[k + 1].before.pixels) # {}
       /\ TurnedOff(trace[k].before.pixels, trace[k + 1].before.pixels) # {}
       /\ PixelsAfter(trace, pixels, k + 1) = trace[k].before.pixels
       /\ PixelsAfter(trace, pixels, k + 1) # BlankPixels
       /\ RegistersAfter(trace, registers, k + 1)[15] = 1

\* The two draws at the right and lower edge, where the sprite is clipped.
C32_WitnessClipped ==
  /\ op = "tick"
  /\ \E k \in 1..Len(trace) :
       /\ SameDrawTwice(trace, fault, k)
       /\ trace[k].before.registers[trace[k].inst.x] % TERMINAL_WIDTH = 62
       /\ trace[k].before.registers[trace[k].inst.y] % TERMINAL_HEIGHT = 30
       /\ TurnedOn(trace[k].before.pixels, trace[k + 1].before.pixels) # {}
       /\ PixelsAfter(trace, pixels, k + 1) = trace[k].before.pixels

(***************************************************************************)
(* C33. An Fx0A that finds a key latched still waits: the wait lasts until *)
(* a later handle_key_pressed, through ticks and handle_key_released; the  *)
(* call that ends the wait leaves its key latched, an Ex9E on a register   *)
(* holding the latched key skips, and the key stays latched until          *)
(* handle_key_released is called.                                          *)
(***************************************************************************)
\* The last cycle was an Fx0A, its wait is over, and the key that ended it,
\* which is in the register of the Fx0A, is latched.
ResolvedKeyLatched ==
  /\ last_cycle # None
  /\ last_cycle[1].inst.t = "GetKeyFX0A"
  /\ waiting_for_input = None
  /\ key_pressed = Some(registers[last_cycle[1].inst.x])

\* An Fx0A waits, whatever is latched, and writes no register.
FX0AWaits ==
  op' = "tick" =>
    \A k \in 1..Len(trace') :
      (trace'[k].inst.t = "GetKeyFX0A" /\ trace'[k].before.key_pressed # None) =>
        /\ k = Len(trace')
        /\ waiting_for_input' = Some(trace'[k].inst.x)
        /\ registers' = trace'[k].before.registers
        /\ key_pressed' = trace'[k].before.key_pressed

\* A wait ends by handle_key_pressed and by nothing else; until then a tick
\* runs no cycle.
WaitEndsByKeyPressed ==
  waiting_for_input # None =>
    IF op' = "handle_key_pressed"
    THEN /\ waiting_for_input' = None
         /\ registers'[waiting_for_input[1]] = arg'[1]
         /\ key_pressed' = Some(arg'[1])
    ELSE /\ waiting_for_input' = waiting_for_input
         /\ op' = "tick" => (trace' = << >> /\ pc' = pc)

\* A tick leaves the latched key alone, and its Ex9E on a register that
\* holds the latched key skips.
LatchedKeySkips ==
  op' = "tick" =>
    /\ key_pressed' = key_pressed
    /\ \A k \in 1..Len(trace') :
         (trace'[k].inst.t = "SkipIfKeyPressedEX9E" /\ key_pressed # None) =>
           (trace'[k].before.registers[trace'[k].inst.x] = key_pressed[1] =>
              PcAfter(trace', pc', k) = trace'[k].addr + 4)

C33_LatchedUntilReleased ==
  [][ /\ FX0AWaits
      /\ WaitEndsByKeyPressed
      /\ LatchedKeySkips
      /\ (ResolvedKeyLatched /\ op' # "handle_key_released") =>
           key_pressed' = key_pressed ]_vars

\* The same, with the latched key lasting until handle_key_released is
\* called or handle_key_pressed is called with another key.
C33_LatchedUntilNextKeyEvent ==
  [][ /\ FX0AWaits
      /\ WaitEndsByKeyPressed
      /\ LatchedKeySkips
      /\ (ResolvedKeyLatched /\ op' # "handle_key_released"
            /\ ~(op' = "handle_key_pressed" /\ Some(arg'[1]) # key_pressed)) =>
           key_pressed' = key_pressed ]_vars

\* The tick after the wait has ended: the E29E behind the F20A finds the
\* key that ended the wait latched and in V2, and skips; the key is still
\* latched after the tick.
C33_Witness ==
  /\ op = "tick"
  /\ trace # << >>
  /\ trace[1].inst.t = "SkipIfKeyPressedEX9E"
  /\ last_cycle # None
  /\ trace[1].addr = PROGRAM_START + 2
  /\ trace[1].before.key_pressed = Some(trace[1].before.registers[2])
  /\ PcAfter(trace, pc, 1) = PROGRAM_START + 6
  /\ key_pressed = trace[1].before.key_pressed

\* F20A has run with a key latched and waits.
C33_WitnessWaits ==
  /\ op = "tick"
  /\ trace # << >>
  /\ trace[Len(trace)].inst.t = "GetKeyFX0A"
  /\ trace[Len(trace)].before.key_pressed = Some(0)
  /\ key_pressed = Some(0)
  /\ waiting_for_input = Some(2)

\* The key that was latched when F20A ran has been released, and the wait
\* goes on.
C33_WitnessReleasedWhileWaiting ==
  /\ op = "handle_key_released"
  /\ waiting_for_input = Some(2)
  /\ last_cycle # None
  /\ last_cycle[1].inst.t = "GetKeyFX0A"

\* The wait of F20A has been ended by key 0, and key 1 has been pressed
\* since, with no release: key 0 is in V2 and key 1 is latched.
C33_WitnessOtherKey ==
  /\ op = "handle_key_pressed"
  /\ last_cycle # None
  /\ last_cycle[1].inst.t = "GetKeyFX0A"
  /\ last_cycle[1].inst.x = 2
  /\ waiting_for_input = None
  /\ registers[2] = 0
  /\ key_pressed = Some(1)
====
